---- MODULE Spec2Model ----
\* Model of package pinata (Stick / Pinata revision, src/pinata.go:619-1252):
\* a Stick holds one pending-error slot and extracts typed values from a
\* Pinata, a view over one position of a decoded interface{} tree.
EXTENDS Integers, Sequences, FiniteSets, TLC

\* ---------------------------------------------------------------- bounds
\* longest segment list handed to Path / PathX
MaxPathLen == 2
\* indices handed to Index / IndexX range over -1 .. MaxIndex
MaxIndex == 2

\* ------------------------------------------------- decoded tree (interface{})
\* A Go interface{} value is modelled by its dynamic type (kind) and payload.
Str(x) == [kind |-> "string", val |-> x]
Num(x) == [kind |-> "float64", val |-> x]
Bool_(x) == [kind |-> "bool", val |-> x]
Int_(x) == [kind |-> "int", val |-> x]
NilV == [kind |-> "nil", val |-> 0]
MapV(f) == [kind |-> "map", val |-> f]
SliceV(q) == [kind |-> "slice", val |-> q]

\* keys used by the documents and by the caller's segment lists
Keys == {"a", "b"}

\* documents: {"a": {"b": "c"}} below a key next to a null (maps three deep),
\* a nested null next to a list of scalars, {"a": "c"}, the empty map, and
\* lists of length 0, 1 and 2 (of scalars, and of a list and a map)
DocRoundTrip == MapV("a" :> MapV("b" :> Str("c")))
DocDeep == MapV("a" :> DocRoundTrip @@ "b" :> NilV)
DocNull == MapV("a" :> MapV("b" :> NilV) @@ "b" :> SliceV(<<Str("c"), Num(0)>>))
DocScalarAtA == MapV("a" :> Str("c"))
DocEmptyMap == MapV(<<>>)
DocList0 == SliceV(<<>>)
DocList2 == SliceV(<<Str(""), NilV>>)
DocListNested == SliceV(<<SliceV(<<Num(1)>>), MapV("a" :> Bool_(FALSE))>>)

Scalars == {Str("c"), Num(1), Bool_(TRUE), NilV, Int_(7)}

Roots == Scalars \cup {DocDeep, DocNull, DocScalarAtA, DocEmptyMap,
                       DocList0, DocList2, DocListNested}

\* ------------------------------------------------------------ ErrorContext
\* method arguments are []interface{}: each argument keeps its dynamic type
IntArg(i) == [kind |-> "int", val |-> i]
toInterfaceSlice(c) == [k \in 1..Len(c) |-> [kind |-> "string", val |-> c[k]]]
NoArgs == <<>>
IndexArgs(index) == <<IntArg(index)>>

\* one link of the chain; the chain is the sequence of links, head first,
\* and the nil *ErrorContext is the empty sequence
ErrorContext(methodName, methodArgs, next) ==
    <<[methodName |-> methodName, methodArgs |-> methodArgs]>> \o next

ErrorReasonIncompatibleType == "incompatible type"
ErrorReasonNotFound == "not found"
ErrorReasonInvalidInput == "invalid input"

\* advice is a format string with its operands: the %d of the index advice,
\* or the segments joined by `", "` (the join is injective on Keys)
Advice(text) == [text |-> text, num |-> 0, segs |-> <<>>]
AdviceNum(text, n) == [text |-> text, num |-> n, segs |-> <<>>]
AdviceJoin(text, segs) == [text |-> text, num |-> 0, segs |-> segs]

\* the nil error, and &Error{...}
NilErr == [reason |-> "", advice |-> Advice(""), context |-> <<>>]
Error(reason, context, advice) ==
    [reason |-> reason, advice |-> advice, context |-> context]

\* ------------------------------------------------------------------ Pinata
FuncNil == [fn |-> "nil", t |-> 0]
noMap == [fn |-> "noMap", t |-> 0]
noSlice == [fn |-> "noSlice", t |-> 0]
Closure(t) == [fn |-> "closure", t |-> t]

\* Pinata{}: the zero value of the struct
EmptyPinata == [context |-> <<>>, value |-> NilV, mapFunc |-> FuncNil, sliceFunc |-> FuncNil]

Value(p) == p.value

Map(p) ==
    IF p.mapFunc # FuncNil
    THEN (IF p.mapFunc.fn = "closure"
          THEN [v |-> p.mapFunc.t, ok |-> TRUE]
          ELSE [v |-> <<>>, ok |-> FALSE])
    ELSE [v |-> <<>>, ok |-> FALSE]

Slice(p) ==
    IF p.sliceFunc # FuncNil
    THEN (IF p.sliceFunc.fn = "closure"
          THEN [v |-> p.sliceFunc.t, ok |-> TRUE]
          ELSE [v |-> <<>>, ok |-> FALSE])
    ELSE [v |-> <<>>, ok |-> FALSE]

\* variant: nil contents are wrapped as an empty list
newPinataWithContext_nilIsList(contents, context) ==
    CASE contents.kind = "map" ->
           [value |-> contents, sliceFunc |-> noSlice,
            mapFunc |-> Closure(contents.val), context |-> context]
      [] contents.kind = "slice" ->
           [value |-> contents, sliceFunc |-> Closure(contents.val),
            mapFunc |-> noMap, context |-> context]
      [] contents.kind = "nil" ->
           [value |-> contents, sliceFunc |-> Closure(<<>>),
            mapFunc |-> noMap, context |-> context]
      [] OTHER ->
           [value |-> contents, sliceFunc |-> noSlice,
            mapFunc |-> noMap, context |-> context]

newPinataWithContext(contents, context) ==
    CASE contents.kind = "map" ->
           [value |-> contents, sliceFunc |-> noSlice,
            mapFunc |-> Closure(contents.val), context |-> context]
      [] contents.kind = "slice" ->
           [value |-> contents, sliceFunc |-> Closure(contents.val),
            mapFunc |-> noMap, context |-> context]
      [] OTHER ->
           [value |-> contents, sliceFunc |-> noSlice,
            mapFunc |-> noMap, context |-> context]

NewPinata(contents) == newPinataWithContext(contents, <<>>)

\* ------------------------------------------------------------------- stick
\* A stick is its err field; writes counts the assignments of a new Error
\* object to err since the stick was created or last cleared, so err holds
\* the same object as before exactly when err and writes are both unchanged.
NewStick == [err |-> NilErr, writes |-> 0]

\* variant: an error is stored only in a stick that holds none
SetErr_ifNone(s, e) == IF s.err # NilErr THEN s ELSE [err |-> e, writes |-> s.writes + 1]

\* s.err = &Error{...}
SetErr(s, e) == [err |-> e, writes |-> s.writes + 1]

\* typed results handed back to the caller
RetString(x) == [type |-> "string", val |-> x]
RetFloat64(x) == [type |-> "float64", val |-> x]
RetBool(x) == [type |-> "bool", val |-> x]
RetPinata(p) == [type |-> "Pinata", val |-> p]
RetError(e) == [type |-> "error", val |-> e]
RetNone == [type |-> "none", val |-> 0]
Out(s, r) == [s |-> s, ret |-> r]

unsupported(s, errCtx, methodName, input, advice) ==
    SetErr(s, Error(ErrorReasonIncompatibleType,
                    ErrorContext(methodName, input, errCtx), Advice(advice)))

indexUnsupported(s, errCtx, methodName, index) ==
    SetErr(s, Error(ErrorReasonIncompatibleType,
                    ErrorContext(methodName, IndexArgs(index), errCtx),
                    Advice("call this method on a slice pinata")))

pathUnsupported(s, errCtx, methodName, path) ==
    SetErr(s, Error(ErrorReasonIncompatibleType,
                    ErrorContext(methodName, toInterfaceSlice(path), errCtx),
                    Advice("call this method on a map pinata")))

\* variant: a slice is not told apart from the other values that are no string
internalString_noSliceCase(s, p, methodName, input) ==
    IF Map(p).ok
    THEN Out(unsupported(s, p.context, methodName, input, "this is a map"), RetString(""))
    ELSE IF Value(p).kind = "string"
    THEN Out(s, RetString(Value(p).val))
    ELSE Out(unsupported(s, p.context, methodName, input, "this is not a string"), RetString(""))

internalString(s, p, methodName, input) ==
    IF Map(p).ok
    THEN Out(unsupported(s, p.context, methodName, input, "this is a map"), RetString(""))
    ELSE IF Slice(p).ok
    THEN Out(unsupported(s, p.context, methodName, input, "this is a slice"), RetString(""))
    ELSE IF Value(p).kind = "string"
    THEN Out(s, RetString(Value(p).val))
    ELSE Out(unsupported(s, p.context, methodName, input, "this is not a string"), RetString(""))

\* variant: a slice is let through without an error
internalFloat64_sliceSilent(s, p, methodName, input) ==
    IF Map(p).ok
    THEN Out(unsupported(s, p.context, methodName, input, "this is a map"), RetFloat64(0))
    ELSE IF Slice(p).ok
    THEN Out(s, RetFloat64(0))
    ELSE IF Value(p).kind = "float64"
    THEN Out(s, RetFloat64(Value(p).val))
    ELSE Out(unsupported(s, p.context, methodName, input, "this is not a float64"), RetFloat64(0))

internalFloat64(s, p, methodName, input) ==
    IF Map(p).ok
    THEN Out(unsupported(s, p.context, methodName, input, "this is a map"), RetFloat64(0))
    ELSE IF Slice(p).ok
    THEN Out(unsupported(s, p.context, methodName, input, "this is a slice"), RetFloat64(0))
    ELSE IF Value(p).kind = "float64"
    THEN Out(s, RetFloat64(Value(p).val))
    ELSE Out(unsupported(s, p.context, methodName, input, "this is not a float64"), RetFloat64(0))

\* variant: null is read as false
internalBool_nullIsFalse(s, p, methodName, input) ==
    IF Map(p).ok
    THEN Out(unsupported(s, p.context, methodName, input, "this is a map"), RetBool(FALSE))
    ELSE IF Slice(p).ok
    THEN Out(unsupported(s, p.context, methodName, input, "this is a slice"), RetBool(FALSE))
    ELSE IF Value(p).kind = "bool"
    THEN Out(s, RetBool(Value(p).val))
    ELSE IF Value(p) = NilV
    THEN Out(s, RetBool(FALSE))
    ELSE Out(unsupported(s, p.context, methodName, input, "this is not a bool"), RetBool(FALSE))

internalBool(s, p, methodName, input) ==
    IF Map(p).ok
    THEN Out(unsupported(s, p.context, methodName, input, "this is a map"), RetBool(FALSE))
    ELSE IF Slice(p).ok
    THEN Out(unsupported(s, p.context, methodName, input, "this is a slice"), RetBool(FALSE))
    ELSE IF Value(p).kind = "bool"
    THEN Out(s, RetBool(Value(p).val))
    ELSE Out(unsupported(s, p.context, methodName, input, "this is not a bool"), RetBool(FALSE))

\* variant: an empty list passes for nil
internalNil_emptyListIsNil(s, p, methodName, input) ==
    IF Value(p) = NilV \/ (Slice(p).ok /\ Len(Slice(p).v) = 0)
    THEN Out(s, RetNone)
    ELSE LET s1 == IF Map(p).ok
                   THEN unsupported(s, p.context, methodName, input, "this is a map")
                   ELSE s
             s2 == IF Slice(p).ok
                   THEN unsupported(s1, p.context, methodName, input, "this is a slice")
                   ELSE s1
         IN Out(unsupported(s2, p.context, methodName, input, "this is not nil"), RetNone)

\* variant: the Pinata{} of a failed lookup is told from a null that is there
internalNil_emptyFails(s, p, methodName, input) ==
    IF p.mapFunc = FuncNil
    THEN Out(unsupported(s, p.context, methodName, input, "this is not nil"), RetNone)
    ELSE IF Value(p) = NilV
    THEN Out(s, RetNone)
    ELSE LET s1 == IF Map(p).ok
                   THEN unsupported(s, p.context, methodName, input, "this is a map")
                   ELSE s
             s2 == IF Slice(p).ok
                   THEN unsupported(s1, p.context, methodName, input, "this is a slice")
                   ELSE s1
         IN Out(unsupported(s2, p.context, methodName, input, "this is not nil"), RetNone)

\* the map and slice branches do not return: the last assignment always runs
internalNil(s, p, methodName, input) ==
    IF Value(p) = NilV
    THEN Out(s, RetNone)
    ELSE LET s1 == IF Map(p).ok
                   THEN unsupported(s, p.context, methodName, input, "this is a map")
                   ELSE s
             s2 == IF Slice(p).ok
                   THEN unsupported(s1, p.context, methodName, input, "this is a slice")
                   ELSE s1
         IN Out(unsupported(s2, p.context, methodName, input, "this is not nil"), RetNone)

\* variant: the pending error is not checked
String_noGuard(s, p) == internalString(s, p, "String", NoArgs)

String(s, p) ==
    IF s.err # NilErr
    THEN Out(s, RetString(""))
    ELSE internalString(s, p, "String", NoArgs)

Bool(s, p) ==
    IF s.err # NilErr
    THEN Out(s, RetBool(FALSE))
    ELSE internalBool(s, p, "Bool", NoArgs)

Float64(s, p) ==
    IF s.err # NilErr
    THEN Out(s, RetFloat64(0))
    ELSE internalFloat64(s, p, "Float64", NoArgs)

Nil(s, p) ==
    IF s.err # NilErr
    THEN Out(s, RetNone)
    ELSE internalNil(s, p, "Nil", NoArgs)

\* variant: the returned node is not linked to the context of the input node
internalIndex_noLink(s, p, methodName, index) ==
    IF Slice(p).ok
    THEN LET slice == Slice(p).v IN
         IF index < 0 \/ index >= Len(slice)
         THEN Out(SetErr(s, Error(ErrorReasonInvalidInput,
                                  ErrorContext(methodName, IndexArgs(index), p.context),
                                  AdviceNum("specify an index from 0 to %d", Len(slice) - 1))),
                  RetPinata(EmptyPinata))
         ELSE Out(s, RetPinata(newPinataWithContext(slice[index + 1],
                         ErrorContext(methodName, IndexArgs(index), <<>>))))
    ELSE Out(indexUnsupported(s, p.context, methodName, index), RetPinata(EmptyPinata))

\* variant: an index out of range is reported as not found
internalIndex_rangeNotFound(s, p, methodName, index) ==
    IF Slice(p).ok
    THEN LET slice == Slice(p).v IN
         IF index < 0 \/ index >= Len(slice)
         THEN Out(SetErr(s, Error(ErrorReasonNotFound,
                                  ErrorContext(methodName, IndexArgs(index), p.context),
                                  AdviceNum("specify an index from 0 to %d", Len(slice) - 1))),
                  RetPinata(EmptyPinata))
         ELSE Out(s, RetPinata(newPinataWithContext(slice[index + 1],
                         ErrorContext(methodName, IndexArgs(index), p.context))))
    ELSE Out(indexUnsupported(s, p.context, methodName, index), RetPinata(EmptyPinata))

\* variant: a negative index is rejected before the node is looked at
internalIndex_negativeFirst(s, p, methodName, index) ==
    IF index < 0
    THEN Out(SetErr(s, Error(ErrorReasonInvalidInput,
                             ErrorContext(methodName, IndexArgs(index), p.context),
                             AdviceNum("specify an index from 0 to %d", Len(Slice(p).v) - 1))),
             RetPinata(EmptyPinata))
    ELSE IF Slice(p).ok
    THEN LET slice == Slice(p).v IN
         IF index >= Len(slice)
         THEN Out(SetErr(s, Error(ErrorReasonInvalidInput,
                                  ErrorContext(methodName, IndexArgs(index), p.context),
                                  AdviceNum("specify an index from 0 to %d", Len(slice) - 1))),
                  RetPinata(EmptyPinata))
         ELSE Out(s, RetPinata(newPinataWithContext(slice[index + 1],
                         ErrorContext(methodName, IndexArgs(index), p.context))))
    ELSE Out(indexUnsupported(s, p.context, methodName, index), RetPinata(EmptyPinata))

\* variant: the lower bound of the range check is off by one
internalIndex_offByOne(s, p, methodName, index) ==
    IF Slice(p).ok
    THEN LET slice == Slice(p).v IN
         IF index <= 0 \/ index >= Len(slice)
         THEN Out(SetErr(s, Error(ErrorReasonInvalidInput,
                                  ErrorContext(methodName, IndexArgs(index), p.context),
                                  AdviceNum("specify an index from 0 to %d", Len(slice) - 1))),
                  RetPinata(EmptyPinata))
         ELSE Out(s, RetPinata(newPinataWithContext(slice[index + 1],
                         ErrorContext(methodName, IndexArgs(index), p.context))))
    ELSE Out(indexUnsupported(s, p.context, methodName, index), RetPinata(EmptyPinata))

\* variant: a negative index is rejected before the shape is tested
internalIndex_rangeFirst(s, p, methodName, index) ==
    IF index < 0 \/ (Slice(p).ok /\ index >= Len(Slice(p).v))
    THEN Out(SetErr(s, Error(ErrorReasonInvalidInput,
                             ErrorContext(methodName, IndexArgs(index), p.context),
                             AdviceNum("specify an index from 0 to %d", Len(Slice(p).v) - 1))),
             RetPinata(EmptyPinata))
    ELSE IF Slice(p).ok
    THEN Out(s, RetPinata(newPinataWithContext(Slice(p).v[index + 1],
                    ErrorContext(methodName, IndexArgs(index), p.context))))
    ELSE Out(indexUnsupported(s, p.context, methodName, index), RetPinata(EmptyPinata))

internalIndex(s, p, methodName, index) ==
    IF Slice(p).ok
    THEN LET slice == Slice(p).v IN
         IF index < 0 \/ index >= Len(slice)
         THEN Out(SetErr(s, Error(ErrorReasonInvalidInput,
                                  ErrorContext(methodName, IndexArgs(index), p.context),
                                  AdviceNum("specify an index from 0 to %d", Len(slice) - 1))),
                  RetPinata(EmptyPinata))
         \* slice[index], zero based
         ELSE Out(s, RetPinata(newPinataWithContext(slice[index + 1],
                         ErrorContext(methodName, IndexArgs(index), p.context))))
    ELSE Out(indexUnsupported(s, p.context, methodName, index), RetPinata(EmptyPinata))

Index(s, p, index) ==
    IF s.err # NilErr
    THEN Out(s, RetPinata(EmptyPinata))
    ELSE internalIndex(s, p, "Index", index)

\* variant: the getter runs although the navigation has failed
IndexString_noMidCheck(s, p, index) ==
    IF s.err # NilErr
    THEN Out(s, RetString(""))
    ELSE LET r == internalIndex(s, p, "IndexString", index) IN
         internalString(r.s, [r.ret.val EXCEPT !.context = p.context],
                        "IndexString", IndexArgs(index))

\* variant: the pending error is not checked
IndexString_noGuard(s, p, index) ==
    LET r == internalIndex(s, p, "IndexString", index) IN
    IF r.s.err # NilErr
    THEN Out(r.s, RetString(""))
    ELSE internalString(r.s, [r.ret.val EXCEPT !.context = p.context],
                        "IndexString", IndexArgs(index))

IndexString(s, p, index) ==
    IF s.err # NilErr
    THEN Out(s, RetString(""))
    ELSE LET r == internalIndex(s, p, "IndexString", index) IN
         IF r.s.err # NilErr
         THEN Out(r.s, RetString(""))
         ELSE internalString(r.s, [r.ret.val EXCEPT !.context = p.context],
                             "IndexString", IndexArgs(index))

\* variant: the node found by the inner navigation keeps its own context
IndexFloat64_keepContext(s, p, index) ==
    IF s.err # NilErr
    THEN Out(s, RetFloat64(0))
    ELSE LET r == internalIndex(s, p, "IndexFloat64", index) IN
         IF r.s.err # NilErr
         THEN Out(r.s, RetFloat64(0))
         ELSE internalFloat64(r.s, r.ret.val, "IndexFloat64", IndexArgs(index))

IndexFloat64(s, p, index) ==
    IF s.err # NilErr
    THEN Out(s, RetFloat64(0))
    ELSE LET r == internalIndex(s, p, "IndexFloat64", index) IN
         IF r.s.err # NilErr
         THEN Out(r.s, RetFloat64(0))
         ELSE internalFloat64(r.s, [r.ret.val EXCEPT !.context = p.context],
                              "IndexFloat64", IndexArgs(index))

IndexBool(s, p, index) ==
    IF s.err # NilErr
    THEN Out(s, RetBool(FALSE))
    ELSE LET r == internalIndex(s, p, "IndexBool", index) IN
         IF r.s.err # NilErr
         THEN Out(r.s, RetBool(FALSE))
         ELSE internalBool(r.s, [r.ret.val EXCEPT !.context = p.context],
                           "IndexBool", IndexArgs(index))

IndexNil(s, p, index) ==
    IF s.err # NilErr
    THEN Out(s, RetNone)
    ELSE LET r == internalIndex(s, p, "IndexNil", index) IN
         IF r.s.err # NilErr
         THEN Out(r.s, RetNone)
         ELSE internalNil(r.s, [r.ret.val EXCEPT !.context = p.context],
                          "IndexNil", IndexArgs(index))

\* variant: a missing intermediate key is reported with the segments before it
RECURSIVE pathLoop_resolvedPrefix(_, _, _, _, _, _)
pathLoop_resolvedPrefix(s, p, methodName, path, contents, i) ==
    IF i < Len(path) - 1
    THEN LET current == path[i + 1] IN
         IF current \in DOMAIN contents
         THEN LET v == contents[current] IN
              IF v.kind = "map"
              THEN pathLoop_resolvedPrefix(s, p, methodName, path, v.val, i + 1)
              ELSE Out(SetErr(s, Error(ErrorReasonIncompatibleType,
                                       ErrorContext(methodName, toInterfaceSlice(path), p.context),
                                       AdviceJoin("\"%s\" does not hold a pinata",
                                                  SubSeq(path, 1, i + 1)))),
                       RetPinata(EmptyPinata))
         ELSE Out(SetErr(s, Error(ErrorReasonNotFound,
                                  ErrorContext(methodName, toInterfaceSlice(path), p.context),
                                  AdviceJoin("\"%s\" does not exist", SubSeq(path, 1, i)))),
                  RetPinata(EmptyPinata))
    ELSE IF path[Len(path)] \in DOMAIN contents
    THEN Out(s, RetPinata(newPinataWithContext(contents[path[Len(path)]],
                    ErrorContext(methodName, toInterfaceSlice(path), p.context))))
    ELSE Out(SetErr(s, Error(ErrorReasonNotFound,
                             ErrorContext(methodName, toInterfaceSlice(path), p.context),
                             AdviceJoin("\"%s\" does not exist", path))),
             RetPinata(EmptyPinata))

\* variant: an intermediate key that holds no map is reported as missing
RECURSIVE pathLoop_typeAsMissing(_, _, _, _, _, _)
pathLoop_typeAsMissing(s, p, methodName, path, contents, i) ==
    IF i < Len(path) - 1
    THEN LET current == path[i + 1] IN
         IF current \in DOMAIN contents /\ contents[current].kind = "map"
         THEN pathLoop_typeAsMissing(s, p, methodName, path, contents[current].val, i + 1)
         ELSE Out(SetErr(s, Error(ErrorReasonNotFound,
                                  ErrorContext(methodName, toInterfaceSlice(path), p.context),
                                  AdviceJoin("\"%s\" does not exist", SubSeq(path, 1, i + 1)))),
                  RetPinata(EmptyPinata))
    ELSE IF path[Len(path)] \in DOMAIN contents
    THEN Out(s, RetPinata(newPinataWithContext(contents[path[Len(path)]],
                    ErrorContext(methodName, toInterfaceSlice(path), p.context))))
    ELSE Out(SetErr(s, Error(ErrorReasonNotFound,
                             ErrorContext(methodName, toInterfaceSlice(path), p.context),
                             AdviceJoin("\"%s\" does not exist", path))),
             RetPinata(EmptyPinata))

\* variant: a final key that holds null is reported as missing
RECURSIVE pathLoop_nullIsMissing(_, _, _, _, _, _)
pathLoop_nullIsMissing(s, p, methodName, path, contents, i) ==
    IF i < Len(path) - 1
    THEN LET current == path[i + 1] IN
         IF current \in DOMAIN contents
         THEN LET v == contents[current] IN
              IF v.kind = "map"
              THEN pathLoop_nullIsMissing(s, p, methodName, path, v.val, i + 1)
              ELSE Out(SetErr(s, Error(ErrorReasonIncompatibleType,
                                       ErrorContext(methodName, toInterfaceSlice(path), p.context),
                                       AdviceJoin("\"%s\" does not hold a pinata",
                                                  SubSeq(path, 1, i + 1)))),
                       RetPinata(EmptyPinata))
         ELSE Out(SetErr(s, Error(ErrorReasonNotFound,
                                  ErrorContext(methodName, toInterfaceSlice(path), p.context),
                                  AdviceJoin("\"%s\" does not exist", SubSeq(path, 1, i + 1)))),
                  RetPinata(EmptyPinata))
    ELSE IF path[Len(path)] \in DOMAIN contents /\ contents[path[Len(path)]] # NilV
    THEN Out(s, RetPinata(newPinataWithContext(contents[path[Len(path)]],
                    ErrorContext(methodName, toInterfaceSlice(path), p.context))))
    ELSE Out(SetErr(s, Error(ErrorReasonNotFound,
                             ErrorContext(methodName, toInterfaceSlice(path), p.context),
                             AdviceJoin("\"%s\" does not exist", path))),
             RetPinata(EmptyPinata))

\* variant: the loop does not descend into the map it found
RECURSIVE pathLoop_noDescend(_, _, _, _, _, _)
pathLoop_noDescend(s, p, methodName, path, contents, i) ==
    IF i < Len(path) - 1
    THEN LET current == path[i + 1] IN
         IF current \in DOMAIN contents
         THEN LET v == contents[current] IN
              IF v.kind = "map"
              THEN pathLoop_noDescend(s, p, methodName, path, contents, i + 1)
              ELSE Out(SetErr(s, Error(ErrorReasonIncompatibleType,
                                       ErrorContext(methodName, toInterfaceSlice(path), p.context),
                                       AdviceJoin("\"%s\" does not hold a pinata",
                                                  SubSeq(path, 1, i + 1)))),
                       RetPinata(EmptyPinata))
         ELSE Out(SetErr(s, Error(ErrorReasonNotFound,
                                  ErrorContext(methodName, toInterfaceSlice(path), p.context),
                                  AdviceJoin("\"%s\" does not exist", SubSeq(path, 1, i + 1)))),
                  RetPinata(EmptyPinata))
    ELSE IF path[Len(path)] \in DOMAIN contents
    THEN Out(s, RetPinata(newPinataWithContext(contents[path[Len(path)]],
                    ErrorContext(methodName, toInterfaceSlice(path), p.context))))
    ELSE Out(SetErr(s, Error(ErrorReasonNotFound,
                             ErrorContext(methodName, toInterfaceSlice(path), p.context),
                             AdviceJoin("\"%s\" does not exist", path))),
             RetPinata(EmptyPinata))

\* variant: when the last segment is missing the node reached so far is
\* returned with the error
RECURSIVE pathLoop_partialNode(_, _, _, _, _, _)
pathLoop_partialNode(s, p, methodName, path, contents, i) ==
    IF i < Len(path) - 1
    THEN LET current == path[i + 1] IN
         IF current \in DOMAIN contents
         THEN LET v == contents[current] IN
              IF v.kind = "map"
              THEN pathLoop_partialNode(s, p, methodName, path, v.val, i + 1)
              ELSE Out(SetErr(s, Error(ErrorReasonIncompatibleType,
                                       ErrorContext(methodName, toInterfaceSlice(path), p.context),
                                       AdviceJoin("\"%s\" does not hold a pinata",
                                                  SubSeq(path, 1, i + 1)))),
                       RetPinata(EmptyPinata))
         ELSE Out(SetErr(s, Error(ErrorReasonNotFound,
                                  ErrorContext(methodName, toInterfaceSlice(path), p.context),
                                  AdviceJoin("\"%s\" does not exist", SubSeq(path, 1, i + 1)))),
                  RetPinata(EmptyPinata))
    ELSE IF path[Len(path)] \in DOMAIN contents
    THEN Out(s, RetPinata(newPinataWithContext(contents[path[Len(path)]],
                    ErrorContext(methodName, toInterfaceSlice(path), p.context))))
    ELSE Out(SetErr(s, Error(ErrorReasonNotFound,
                             ErrorContext(methodName, toInterfaceSlice(path), p.context),
                             AdviceJoin("\"%s\" does not exist", path))),
             RetPinata(newPinataWithContext(MapV(contents), p.context)))

\* the for loop of internalPath over the segments before the last; i is the
\* zero-based loop counter and contents the map reached so far
RECURSIVE pathLoop(_, _, _, _, _, _)
pathLoop(s, p, methodName, path, contents, i) ==
    IF i < Len(path) - 1
    THEN LET current == path[i + 1] IN
         IF current \in DOMAIN contents
         THEN LET v == contents[current] IN
              IF v.kind = "map"
              THEN pathLoop(s, p, methodName, path, v.val, i + 1)
              ELSE Out(SetErr(s, Error(ErrorReasonIncompatibleType,
                                       ErrorContext(methodName, toInterfaceSlice(path), p.context),
                                       AdviceJoin("\"%s\" does not hold a pinata",
                                                  SubSeq(path, 1, i + 1)))),
                       RetPinata(EmptyPinata))
         ELSE Out(SetErr(s, Error(ErrorReasonNotFound,
                                  ErrorContext(methodName, toInterfaceSlice(path), p.context),
                                  AdviceJoin("\"%s\" does not exist", SubSeq(path, 1, i + 1)))),
                  RetPinata(EmptyPinata))
    ELSE IF path[Len(path)] \in DOMAIN contents
    THEN Out(s, RetPinata(newPinataWithContext(contents[path[Len(path)]],
                    ErrorContext(methodName, toInterfaceSlice(path), p.context))))
    ELSE Out(SetErr(s, Error(ErrorReasonNotFound,
                             ErrorContext(methodName, toInterfaceSlice(path), p.context),
                             AdviceJoin("\"%s\" does not exist", path))),
             RetPinata(EmptyPinata))

\* variant: Path on a node that is no map reports not found
internalPath_nonMapNotFound(s, p, methodName, path) ==
    IF ~Map(p).ok
    THEN Out(SetErr(s, Error(ErrorReasonNotFound,
                             ErrorContext(methodName, toInterfaceSlice(path), p.context),
                             Advice("call this method on a map pinata"))),
             RetPinata(EmptyPinata))
    ELSE IF Len(path) = 0
    THEN Out(SetErr(s, Error(ErrorReasonInvalidInput,
                             ErrorContext(methodName, toInterfaceSlice(path), p.context),
                             Advice("specify a path"))),
             RetPinata(EmptyPinata))
    ELSE pathLoop(s, p, methodName, path, Map(p).v, 0)

\* variant: the segment list is tested before the shape of the node
internalPath_lenFirst(s, p, methodName, path) ==
    IF Len(path) = 0
    THEN Out(SetErr(s, Error(ErrorReasonInvalidInput,
                             ErrorContext(methodName, toInterfaceSlice(path), p.context),
                             Advice("specify a path"))),
             RetPinata(EmptyPinata))
    ELSE IF ~Map(p).ok
    THEN Out(pathUnsupported(s, p.context, methodName, path), RetPinata(EmptyPinata))
    ELSE pathLoop(s, p, methodName, path, Map(p).v, 0)

\* variant: an empty segment list is reported as a missing key
internalPath_emptyNotFound(s, p, methodName, path) ==
    IF ~Map(p).ok
    THEN Out(pathUnsupported(s, p.context, methodName, path), RetPinata(EmptyPinata))
    ELSE IF Len(path) = 0
    THEN Out(SetErr(s, Error(ErrorReasonNotFound,
                             ErrorContext(methodName, toInterfaceSlice(path), p.context),
                             AdviceJoin("\"%s\" does not exist", path))),
             RetPinata(EmptyPinata))
    ELSE pathLoop(s, p, methodName, path, Map(p).v, 0)

internalPath(s, p, methodName, path) ==
    IF ~Map(p).ok
    THEN Out(pathUnsupported(s, p.context, methodName, path), RetPinata(EmptyPinata))
    ELSE IF Len(path) = 0
    THEN Out(SetErr(s, Error(ErrorReasonInvalidInput,
                             ErrorContext(methodName, toInterfaceSlice(path), p.context),
                             Advice("specify a path"))),
             RetPinata(EmptyPinata))
    ELSE pathLoop(s, p, methodName, path, Map(p).v, 0)

Path(s, p, path) ==
    IF s.err # NilErr
    THEN Out(s, RetPinata(EmptyPinata))
    ELSE internalPath(s, p, "Path", path)

PathString(s, p, path) ==
    IF s.err # NilErr
    THEN Out(s, RetString(""))
    ELSE LET r == internalPath(s, p, "PathString", path) IN
         IF r.s.err # NilErr
         THEN Out(r.s, RetString(""))
         ELSE internalString(r.s, [r.ret.val EXCEPT !.context = p.context],
                             "PathString", toInterfaceSlice(path))

\* variant: the scalar stage reports under the name of the inner getter
PathFloat64_innerName(s, p, path) ==
    IF s.err # NilErr
    THEN Out(s, RetFloat64(0))
    ELSE LET r == internalPath(s, p, "PathFloat64", path) IN
         IF r.s.err # NilErr
         THEN Out(r.s, RetFloat64(0))
         ELSE internalFloat64(r.s, [r.ret.val EXCEPT !.context = p.context],
                              "Float64", NoArgs)

PathFloat64(s, p, path) ==
    IF s.err # NilErr
    THEN Out(s, RetFloat64(0))
    ELSE LET r == internalPath(s, p, "PathFloat64", path) IN
         IF r.s.err # NilErr
         THEN Out(r.s, RetFloat64(0))
         ELSE internalFloat64(r.s, [r.ret.val EXCEPT !.context = p.context],
                              "PathFloat64", toInterfaceSlice(path))

PathBool(s, p, path) ==
    IF s.err # NilErr
    THEN Out(s, RetBool(FALSE))
    ELSE LET r == internalPath(s, p, "PathBool", path) IN
         IF r.s.err # NilErr
         THEN Out(r.s, RetBool(FALSE))
         ELSE internalBool(r.s, [r.ret.val EXCEPT !.context = p.context],
                           "PathBool", toInterfaceSlice(path))

\* variant: an absent key passes for null
PathNil_absentIsNull(s, p, path) ==
    IF s.err # NilErr
    THEN Out(s, RetNone)
    ELSE LET r == internalPath(s, p, "PathNil", path) IN
         IF r.s.err # NilErr
         THEN (IF r.s.err.reason = ErrorReasonNotFound
               THEN Out(s, RetNone)
               ELSE Out(r.s, RetNone))
         ELSE internalNil(r.s, [r.ret.val EXCEPT !.context = p.context],
                          "PathNil", toInterfaceSlice(path))

PathNil(s, p, path) ==
    IF s.err # NilErr
    THEN Out(s, RetNone)
    ELSE LET r == internalPath(s, p, "PathNil", path) IN
         IF r.s.err # NilErr
         THEN Out(r.s, RetNone)
         ELSE internalNil(r.s, [r.ret.val EXCEPT !.context = p.context],
                          "PathNil", toInterfaceSlice(path))

\* variant: the error is returned but the slot is not reset
ClearError_keep(s) == Out(s, RetError(s.err))

\* variant: an invalid-input error stays in the slot when it is cleared
ClearError_keepsInvalidInput(s) ==
    IF s.err.reason = ErrorReasonInvalidInput
    THEN Out(s, RetError(s.err))
    ELSE Out([s EXCEPT !.err = NilErr, !.writes = 0], RetError(s.err))

ClearError(s) == Out([s EXCEPT !.err = NilErr, !.writes = 0], RetError(s.err))

\* variant: reading the error also resets the slot
StickError_clears(s) == Out([s EXCEPT !.err = NilErr, !.writes = 0], RetError(s.err))

StickError(s) == Out(s, RetError(s.err))

\* ------------------------------------------------- documented contract
\* The value reached from v along path, as the Stick interface documents it:
\* every element before the last must be a map[string]interface{}.
RECURSIVE Resolve(_, _)
Resolve(v, path) ==
    IF Len(path) = 0
    THEN [ok |-> TRUE, v |-> v]
    ELSE IF v.kind = "map" /\ Head(path) \in DOMAIN v.val
    THEN Resolve(v.val[Head(path)], Tail(path))
    ELSE [ok |-> FALSE, v |-> NilV]

ScalarKind(op) ==
    CASE op \in {"String", "IndexString", "PathString"} -> "string"
      [] op \in {"Float64", "IndexFloat64", "PathFloat64"} -> "float64"
      [] op \in {"Bool", "IndexBool", "PathBool"} -> "bool"
      [] op \in {"Nil", "IndexNil", "PathNil"} -> "nil"
      [] OTHER -> "any"

IndexOps == {"Index", "IndexString", "IndexFloat64", "IndexBool", "IndexNil"}
PathOps == {"Path", "PathString", "PathFloat64", "PathBool", "PathNil"}
ScalarOps == {"String", "Float64", "Bool", "Nil"}
StickOps == ScalarOps \cup IndexOps \cup PathOps

\* the documented condition under which operation op is successful
Succeeds(op, p, index, path) ==
    CASE op \in ScalarOps -> Value(p).kind = ScalarKind(op)
      [] op \in IndexOps ->
           /\ Value(p).kind = "slice"
           /\ 0 <= index /\ index < Len(Value(p).val)
           /\ ScalarKind(op) \in {"any", Value(p).val[index + 1].kind}
      [] op \in PathOps ->
           /\ Value(p).kind = "map"
           /\ Len(path) > 0
           /\ Resolve(Value(p), path).ok
           /\ ScalarKind(op) \in {"any", Resolve(Value(p), path).v.kind}
      [] OTHER -> TRUE

\* --------------------------------------------------------------- the caller
\* root: the decoded document; cur: the Pinata the caller holds (the one
\* New returned, or the result of its last Index / Path call); s: the stick;
\* ret: what the last call returned; call: the last call (operation, node,
\* arguments, the stick before the call); first: what the first failing
\* operation since the last clear reports when run on a stick with no pending
\* error; failed: some operation since the last clear was not successful;
\* trail: the successful Index / Path calls, oldest first, by which the
\* caller got from New's Pinata to cur (empty when cur is Pinata{}).
VARIABLES root, cur, s, ret, call, first, failed, trail

\* Two callers, A and B, each with a stick of its own, on the one document:
\* heap: the stick structs by address; ref: the address NewStick gave each
\* caller; node: the Pinata the callers pass around (the wrapped document,
\* or what the last Index / Path of either caller returned); last: who made
\* the last call; alone: the stick each caller has when its calls are made
\* without the other caller's; res: whether the last call returned what
\* it returns when made without the other caller's.
VARIABLES heap, ref, node, last, alone, res

\* Two threads that call operations on one stick and one Pinata at the same
\* time: shared: the stick struct; th: for each thread where it is in its
\* call (idle, past the test of s.err, returned), the call, and whether it
\* saw the stick without an error; wrote: the errors the calls stored in
\* the struct, with the storing thread, in the order of the writes.
VARIABLES shared, th, wrote

\* A caller that keeps the path segments in a slice of its own and calls
\* Path(p, segs...): segs: that slice; cells: the ErrorContext structs by
\* address; hp: the Pinata the caller holds, its context an address; herr:
\* the stick's err, its context an address; atCall: what the pending error
\* reported when the failing call returned; seen: what it reported when last
\* asked; hops: the successful Index / Path calls that led from New's
\* Pinata to hp; given: the length of the chain of the Pinata given to the
\* failing call.
VARIABLES segs, cells, hp, herr, atCall, seen, hops, given

\* The first revision of the package, in which a Pinata holds its value and
\* its own error: objs: the Pinata objects by address, the one New returned
\* to the caller at address 1; held: the address of the child the caller got
\* from PinataAtPath / PinataAtIndex (0: none, or nil); cpc: whether a call
\* of StringAtPath / StringAtIndex is running, or the program has stopped
\* with a stack overflow; running: that call; frames: its activations on
\* the stack; cret: what the last call returned; clast: the last call, on
\* which object it was made, and the objects before it.
VARIABLES objs, held, cpc, running, frames, cret, clast

oneVars == <<cur, s, ret, call, first, failed, trail>>
twoVars == <<heap, ref, node, last, alone, res>>
raceVars == <<shared, th, wrote>>
memVars == <<segs, cells, hp, herr, atCall, seen, hops, given>>
combVars == <<objs, held, cpc, running, frames, cret, clast>>
auxVars == <<memVars, combVars>>
vars == <<root, oneVars, twoVars, raceVars, auxVars>>

\* the two callers are not there
TwoIdle ==
    /\ heap = <<>> /\ ref = <<>> /\ node = <<>>
    /\ last = <<>> /\ alone = <<>> /\ res = <<>>

\* the two threads are not there
RaceIdle == shared = <<>> /\ th = <<>> /\ wrote = <<>>

\* the caller with a slice of its own is not there
MemIdle ==
    /\ segs = <<>> /\ cells = <<>> /\ hp = <<>> /\ herr = <<>>
    /\ atCall = <<>> /\ seen = <<>> /\ hops = 0 /\ given = 0

\* the first revision's Pinata objects are not there
CombIdle ==
    /\ objs = <<>> /\ held = 0 /\ cpc = "" /\ running = <<>>
    /\ frames = 0 /\ cret = <<>> /\ clast = <<>>

AuxIdle == MemIdle /\ CombIdle

RECURSIVE SeqsOf(_, _)
SeqsOf(S, n) ==
    IF n = 0 THEN {<<>>}
    ELSE LET shorter == SeqsOf(S, n - 1) IN
         shorter \cup {Append(q, x) : q \in {r \in shorter : Len(r) = n - 1}, x \in S}

Paths == SeqsOf(Keys, MaxPathLen)
Indices == -1 .. MaxIndex

NoCall == [op |-> "none", p |-> EmptyPinata, index |-> 0, path |-> <<>>,
           pre |-> NewStick, resumed |-> FALSE, via |-> <<>>]

\* what an error reports: Reason(), Advice(), Context()
Report(e) == [reason |-> e.reason, advice |-> e.advice, context |-> e.context]
NoReport == Report(NilErr)

\* stick, p := New(root)
Init ==
    /\ root \in Roots
    /\ cur = NewPinata(root)
    /\ s = NewStick
    /\ ret = RetNone
    /\ call = NoCall
    /\ first = NoReport
    /\ failed = FALSE
    /\ trail = <<>>
    /\ TwoIdle /\ RaceIdle /\ AuxIdle

Fresh(t) == [t EXCEPT !.err = NilErr, !.writes = 0]

\* bookkeeping common to the operations: r is the outcome of the call on s,
\* fresh the outcome of the same call on a stick with no pending error;
\* resumed marks the call that directly follows the clearing of an error.
\* A call on a stick with a pending error returns before it reads its node
\* and arguments: for such a call the record keeps the operation only.
\* via is the trail of the node the call was made on.
Called(op, p, index, path, r, fresh) ==
    /\ s' = r.s
    /\ ret' = r.ret
    /\ call' = [op |-> op,
                p |-> IF s.err # NilErr THEN EmptyPinata ELSE p,
                index |-> IF s.err # NilErr THEN 0 ELSE index,
                path |-> IF s.err # NilErr THEN <<>> ELSE path,
                pre |-> s,
                resumed |-> (call.op = "ClearError" /\ call.pre.err # NilErr),
                via |-> IF s.err # NilErr THEN <<>> ELSE trail]
    /\ first' = IF first = NoReport THEN Report(fresh.s.err) ELSE first
    /\ failed' = (failed \/ ~Succeeds(op, p, index, path))
    /\ trail' = IF op \notin {"Index", "Path"}
                THEN trail
                ELSE IF s.err = NilErr /\ Succeeds(op, p, index, path)
                THEN Append(trail, [methodName |-> op,
                                    methodArgs |-> IF op = "Index"
                                                   THEN IndexArgs(index)
                                                   ELSE toInterfaceSlice(path)])
                ELSE <<>>
    /\ root' = root
    /\ UNCHANGED <<twoVars, raceVars, auxVars>>

\* the caller wraps the document again: p := NewPinata(root)
DoNewPinata ==
    /\ cur' = NewPinata(root)
    /\ trail' = <<>>
    /\ UNCHANGED <<root, s, ret, call, first, failed, twoVars, raceVars, auxVars>>

DoString ==
    /\ Called("String", cur, 0, <<>>, String(s, cur), String(Fresh(s), cur))
    /\ cur' = cur

DoFloat64 ==
    /\ Called("Float64", cur, 0, <<>>, Float64(s, cur), Float64(Fresh(s), cur))
    /\ cur' = cur

DoBool ==
    /\ Called("Bool", cur, 0, <<>>, Bool(s, cur), Bool(Fresh(s), cur))
    /\ cur' = cur

DoNil ==
    /\ Called("Nil", cur, 0, <<>>, Nil(s, cur), Nil(Fresh(s), cur))
    /\ cur' = cur

DoIndex ==
    \E i \in Indices :
         /\ Called("Index", cur, i, <<>>, Index(s, cur, i), Index(Fresh(s), cur, i))
         /\ cur' = Index(s, cur, i).ret.val

DoIndexString ==
    /\ \E i \in Indices :
         Called("IndexString", cur, i, <<>>, IndexString(s, cur, i), IndexString(Fresh(s), cur, i))
    /\ cur' = cur

DoIndexFloat64 ==
    /\ \E i \in Indices :
         Called("IndexFloat64", cur, i, <<>>, IndexFloat64(s, cur, i), IndexFloat64(Fresh(s), cur, i))
    /\ cur' = cur

DoIndexBool ==
    /\ \E i \in Indices :
         Called("IndexBool", cur, i, <<>>, IndexBool(s, cur, i), IndexBool(Fresh(s), cur, i))
    /\ cur' = cur

DoIndexNil ==
    /\ \E i \in Indices :
         Called("IndexNil", cur, i, <<>>, IndexNil(s, cur, i), IndexNil(Fresh(s), cur, i))
    /\ cur' = cur

DoPath ==
    \E path \in Paths :
         /\ Called("Path", cur, 0, path, Path(s, cur, path), Path(Fresh(s), cur, path))
         /\ cur' = Path(s, cur, path).ret.val

DoPathString ==
    /\ \E path \in Paths :
         Called("PathString", cur, 0, path, PathString(s, cur, path), PathString(Fresh(s), cur, path))
    /\ cur' = cur

DoPathFloat64 ==
    /\ \E path \in Paths :
         Called("PathFloat64", cur, 0, path, PathFloat64(s, cur, path), PathFloat64(Fresh(s), cur, path))
    /\ cur' = cur

DoPathBool ==
    /\ \E path \in Paths :
         Called("PathBool", cur, 0, path, PathBool(s, cur, path), PathBool(Fresh(s), cur, path))
    /\ cur' = cur

DoPathNil ==
    /\ \E path \in Paths :
         Called("PathNil", cur, 0, path, PathNil(s, cur, path), PathNil(Fresh(s), cur, path))
    /\ cur' = cur

DoClearError ==
    /\ s' = ClearError(s).s
    /\ ret' = ClearError(s).ret
    /\ call' = [op |-> "ClearError", p |-> EmptyPinata, index |-> 0, path |-> <<>>,
                pre |-> s, resumed |-> FALSE, via |-> <<>>]
    /\ first' = NoReport
    /\ failed' = FALSE
    /\ UNCHANGED <<root, cur, trail, twoVars, raceVars, auxVars>>

DoError ==
    /\ s' = StickError(s).s
    /\ ret' = StickError(s).ret
    /\ call' = [op |-> "Error", p |-> EmptyPinata, index |-> 0, path |-> <<>>,
                pre |-> s, resumed |-> FALSE, via |-> <<>>]
    /\ UNCHANGED <<root, cur, first, failed, trail, twoVars, raceVars, auxVars>>

Next ==
    \/ DoNewPinata
    \/ DoString \/ DoFloat64 \/ DoBool \/ DoNil
    \/ DoIndex \/ DoIndexString \/ DoIndexFloat64 \/ DoIndexBool \/ DoIndexNil
    \/ DoPath \/ DoPathString \/ DoPathFloat64 \/ DoPathBool \/ DoPathNil
    \/ DoClearError \/ DoError

Spec == Init /\ [][Next]_vars

TypeOK ==
    /\ root \in Roots
    /\ s.writes \in 0 .. 3
    /\ failed \in BOOLEAN

\* ------------------------------------------------------------ properties
\* the zero value of the result type of operation op
ZeroOf(op) ==
    CASE ScalarKind(op) = "string" -> RetString("")
      [] ScalarKind(op) = "float64" -> RetFloat64(0)
      [] ScalarKind(op) = "bool" -> RetBool(FALSE)
      [] ScalarKind(op) = "nil" -> RetNone
      [] OTHER -> RetPinata(EmptyPinata)

\* the tree value a valid call addresses
Target(op, p, index, path) ==
    CASE op \in IndexOps -> Value(p).val[index + 1]
      [] op \in PathOps -> Resolve(Value(p), path).v
      [] OTHER -> Value(p)

\* ret is the result of a valid call: the addressed value, as a scalar of the
\* operation's kind or wrapped in a Pinata
ReturnsTarget(op, p, index, path) ==
    LET v == Target(op, p, index, path) IN
    CASE ScalarKind(op) = "any" -> ret.type = "Pinata" /\ Value(ret.val) = v
      [] ScalarKind(op) = "nil" -> ret = RetNone
      [] OTHER -> ret = [type |-> ScalarKind(op), val |-> v.val]

WasClean == call.pre.err = NilErr
WasFailed == call.pre.err # NilErr

\* C1: an operation called on a stick with a pending error leaves the stick
\* holding the very same error (no new assignment) and returns the zero value
\* of its result type, whatever its node and arguments.
NoOpUnderPendingError ==
    (call.op \in StickOps /\ WasFailed) =>
        (s = call.pre /\ ret = ZeroOf(call.op))

\* C1 witness: String was called with an error pending on the node the caller
\* holds, a string node, for which the same call on a clean stick succeeds.
NoOpUnderPendingErrorWitness ==
    /\ call.op = "String" /\ WasFailed /\ Succeeds("String", cur, 0, <<>>)
    /\ Value(cur) = Str("c")
    /\ s.err # NilErr /\ ret = RetString("")

\* C2: the pending error reports what the first failing operation since the
\* last clear produces (reason, advice, method name, arguments, chain).
FirstErrorWins == Report(s.err) = first

\* C2 witness: a not-found error is pending and Float64 was called after it
\* on the map node the caller holds, a call that fails with another reason
\* (incompatible type) on a clean stick.
FirstErrorWinsWitness ==
    /\ s.err.reason = ErrorReasonNotFound
    /\ call.op = "Float64" /\ WasFailed /\ Map(cur).ok
    /\ Float64(Fresh(s), cur).s.err.reason = ErrorReasonIncompatibleType

\* C3: ClearError returns the error that was pending and leaves the stick
\* clean; on a clean stick it returns nil and changes nothing; the valid
\* operation that follows the clearing of an error succeeds, returns the
\* addressed value and leaves the stick clean.
ClearAndResume ==
    /\ call.op = "ClearError" =>
          /\ ret = RetError(call.pre.err)
          /\ s.err = NilErr
          /\ (WasClean => s = call.pre)
    /\ (/\ call.op \in StickOps /\ call.resumed
        /\ Succeeds(call.op, call.p, call.index, call.path)) =>
          /\ s.err = NilErr
          /\ ReturnsTarget(call.op, call.p, call.index, call.path)

\* C3 witness: an error was cleared and the next call, a valid IndexString,
\* returned the element.
ClearAndResumeWitness ==
    /\ call.op = "IndexString" /\ call.resumed
    /\ Succeeds(call.op, call.p, call.index, call.path)
    /\ s.err = NilErr /\ ret = RetString("c")

\* C4: a failed stick keeps its error across every step except ClearError,
\* which is the only step that makes it clean.
NoAutomaticRecovery ==
    [][s.err # NilErr =>
          (s' = s \/ (call'.op = "ClearError" /\ call'.pre = s /\ s'.err = NilErr))]_vars

\* C4 witness: Error() was queried on a failed stick, which still holds the
\* error it held before the query.
NoAutomaticRecoveryWitness ==
    /\ call.op = "Error" /\ WasFailed
    /\ s = call.pre /\ ret = RetError(s.err)

\* C5: the stick is clean exactly when every operation since it was created
\* or last cleared was successful.
CleanIffAllSucceeded == (s.err = NilErr) <=> ~failed

\* C5 witness: a valid Float64 call on a clean stick returned the number and
\* left the stick clean.
CleanIffAllSucceededWitness ==
    /\ call.op = "Float64" /\ WasClean /\ Succeeds("Float64", call.p, 0, <<>>)
    /\ ~failed /\ s.err = NilErr /\ ret = RetFloat64(1)

\* C6: on a clean stick PathString along a non-empty path through maps to a
\* string returns that string and leaves the stick clean.
RoundTripExtraction ==
    (/\ call.op = "PathString" /\ WasClean
     /\ Map(call.p).ok
     /\ Len(call.path) > 0
     /\ Resolve(Value(call.p), call.path).ok
     /\ Resolve(Value(call.p), call.path).v.kind = "string") =>
        /\ ret = RetString(Resolve(Value(call.p), call.path).v.val)
        /\ s.err = NilErr

\* C6 witness: PathString(p, "a", "b") on {"a": {"b": "c"}} returned "c".
RoundTripExtractionWitness ==
    /\ Value(call.p) = DocRoundTrip
    /\ call.op = "PathString" /\ WasClean /\ call.path = <<"a", "b">>
    /\ ret = RetString("c") /\ s.err = NilErr

\* C7: on a clean stick Index on a list of length n returns the node of
\* element i when 0 <= i < n, and otherwise fails with invalid input and
\* advice naming the range 0 to n-1.
IndexBounds ==
    (call.op = "Index" /\ WasClean /\ Slice(call.p).ok) =>
        LET slice == Slice(call.p).v
            i == call.index
        IN IF 0 <= i /\ i < Len(slice)
           THEN /\ s.err = NilErr
                /\ ret.type = "Pinata"
                /\ Value(ret.val) = slice[i + 1]
           ELSE /\ s.err.reason = ErrorReasonInvalidInput
                /\ s.err.advice = AdviceNum("specify an index from 0 to %d", Len(slice) - 1)
                /\ ret = RetPinata(EmptyPinata)

\* C7 witness: Index(node, 2) on a list of length 2 failed with invalid input.
IndexBoundsWitness ==
    /\ call.op = "Index" /\ WasClean /\ Slice(call.p).ok
    /\ Len(Slice(call.p).v) = 2 /\ call.index = 2
    /\ s.err.reason = ErrorReasonInvalidInput

\* C8: on a clean stick Index and every IndexX on a node that is not
\* list-shaped fail with incompatible type for every index.
IndexOnNonList ==
    (call.op \in IndexOps /\ WasClean /\ ~Slice(call.p).ok) =>
        s.err.reason = ErrorReasonIncompatibleType

\* C8 witness: IndexBool with index -1 on a map node failed with incompatible
\* type.
IndexOnNonListWitness ==
    /\ call.op = "IndexBool" /\ WasClean /\ Map(call.p).ok /\ call.index = -1
    /\ s.err.reason = ErrorReasonIncompatibleType

\* C9: on a clean stick Path and every PathX on a node that is not map-shaped
\* fail with incompatible type for every segment list.
PathOnNonMap ==
    (call.op \in PathOps /\ WasClean /\ ~Map(call.p).ok) =>
        s.err.reason = ErrorReasonIncompatibleType

\* C9 witness: PathNil with no segments on the empty Pinata failed with
\* incompatible type.
PathOnNonMapWitness ==
    /\ call.op = "PathNil" /\ WasClean /\ call.p = EmptyPinata /\ call.path = <<>>
    /\ s.err.reason = ErrorReasonIncompatibleType

\* C10: on a clean stick Path on a map-shaped node with no segments fails with
\* invalid input and advice "specify a path", and returns the empty Pinata.
EmptyPathIsInvalidInput ==
    (call.op = "Path" /\ WasClean /\ Map(call.p).ok /\ Len(call.path) = 0) =>
        /\ s.err.reason = ErrorReasonInvalidInput
        /\ s.err.advice = Advice("specify a path")
        /\ ret = RetPinata(EmptyPinata)

\* C10 witness: Path(p) with no segments on a map node failed with invalid
\* input.
EmptyPathIsInvalidInputWitness ==
    /\ call.op = "Path" /\ WasClean /\ Map(call.p).ok /\ Len(call.path) = 0
    /\ s.err.reason = ErrorReasonInvalidInput

\* ---------------------------------------------------------------- segments
\* segment j (counted from 1) of path is the first one the walk from node p
\* cannot take because it is not a key of the map reached by the j-1
\* segments before it
MissingAt(p, path, j) ==
    /\ j \in 1 .. Len(path)
    /\ Resolve(Value(p), SubSeq(path, 1, j - 1)).ok
    /\ Resolve(Value(p), SubSeq(path, 1, j - 1)).v.kind = "map"
    /\ path[j] \notin DOMAIN Resolve(Value(p), SubSeq(path, 1, j - 1)).v.val

\* segment j of path is a key of the map reached by the segments before it
PresentAt(p, path, j) ==
    /\ j \in 1 .. Len(path)
    /\ Resolve(Value(p), SubSeq(path, 1, j)).ok

\* C11 as stated: Path on a map node whose non-final segment j is missing
\* fails with not found, and the advice names the segments resolved before
\* the missing key, path[1 .. j-1].
MissingIntermediateNamesResolvedPrefix ==
    \A j \in 1 .. Len(call.path) - 1 :
        (call.op = "Path" /\ WasClean /\ MissingAt(call.p, call.path, j))
            => /\ s.err.reason = ErrorReasonNotFound
               /\ s.err.advice.segs = SubSeq(call.path, 1, j - 1)

\* C11 amended: Path on a map node whose non-final segment j is missing fails
\* with not found at that segment, returns the empty Pinata, and the advice
\* names the prefix of the path that ends with the missing key, path[1 .. j].
MissingIntermediateIsNotFound ==
    \A j \in 1 .. Len(call.path) - 1 :
        (call.op = "Path" /\ WasClean /\ MissingAt(call.p, call.path, j))
            => /\ s.err.reason = ErrorReasonNotFound
               /\ s.err.advice = AdviceJoin("\"%s\" does not exist", SubSeq(call.path, 1, j))
               /\ ret = RetPinata(EmptyPinata)

MissingIntermediateIsNotFoundWitness ==
    /\ call.op = "Path" /\ WasClean
    /\ Len(call.path) >= 2
    /\ MissingAt(call.p, call.path, 1)
    /\ s.err.reason = ErrorReasonNotFound
    /\ s.err.advice.segs = <<call.path[1]>>

\* C12: Path on a map node whose non-final segment j is a key that holds a
\* value other than a map (a scalar, null, a list) fails with incompatible
\* type, never not found; the advice names the prefix ending at that key,
\* path[1 .. j], whatever the segments after it are, and the empty Pinata is
\* returned.
WrongShapeIntermediateIsIncompatibleType ==
    \A j \in 1 .. Len(call.path) - 1 :
        (/\ call.op = "Path" /\ WasClean
         /\ PresentAt(call.p, call.path, j)
         /\ Resolve(Value(call.p), SubSeq(call.path, 1, j)).v.kind # "map")
            => /\ s.err.reason = ErrorReasonIncompatibleType
               /\ s.err.advice = AdviceJoin("\"%s\" does not hold a pinata",
                                            SubSeq(call.path, 1, j))
               /\ ret = RetPinata(EmptyPinata)

\* Path(p, "a", "b") on {"a": "c"}: the advice names "a"
WrongShapeIntermediateIsIncompatibleTypeWitness ==
    /\ call.op = "Path" /\ WasClean
    /\ Value(call.p) = DocScalarAtA
    /\ call.path = <<"a", "b">>
    /\ s.err.reason = ErrorReasonIncompatibleType
    /\ s.err.advice.segs = <<"a">>

FinalSegmentMissingWitness ==
    /\ call.op = "Path" /\ WasClean
    /\ Value(call.p) = DocNull
    /\ call.path = <<"a", "a">>
    /\ s.err.reason = ErrorReasonNotFound
    /\ s.err.advice.segs = <<"a", "a">>

\* ----------------------------------------------------------------- scalars
\* the advice of a failed String / Float64 / Bool on a value of kind k
ShapeAdvice(k, other) ==
    Advice(CASE k = "map" -> "this is a map"
             [] k = "slice" -> "this is a slice"
             [] OTHER -> other)

\* C14: String succeeds exactly when the raw value of the node is a string
\* (the node is then neither a map nor a list) and returns it; on every other
\* node it returns "" and fails with incompatible type, the advice being
\* "this is a map", "this is a slice", or "this is not a string" for the
\* rest, Pinata{} and numbers included.
StringContract ==
    (call.op = "String" /\ WasClean)
        => LET v == Value(call.p) IN
           IF v.kind = "string"
           THEN /\ s.err = NilErr
                /\ ret = RetString(v.val)
                /\ ~Map(call.p).ok /\ ~Slice(call.p).ok
           ELSE /\ ret = RetString("")
                /\ s.err.reason = ErrorReasonIncompatibleType
                /\ s.err.advice = ShapeAdvice(v.kind, "this is not a string")

\* String on Pinata{}, the node a failed navigation left behind
StringContractWitness ==
    /\ call.op = "String" /\ WasClean
    /\ call.p = EmptyPinata
    /\ ret = RetString("")
    /\ s.err.reason = ErrorReasonIncompatibleType
    /\ s.err.advice = Advice("this is not a string")

\* String on a list
StringOnSliceWitness ==
    /\ call.op = "String" /\ WasClean
    /\ Value(call.p).kind = "slice"
    /\ s.err.advice = Advice("this is a slice")

\* C15: Float64 succeeds exactly when the raw value is a float64 and Bool
\* exactly when it is a bool, returning the value; on a map, a list or a
\* value of any other kind they return 0 / false and fail with incompatible
\* type.
Float64AndBoolContract ==
    (call.op \in {"Float64", "Bool"} /\ WasClean)
        => LET v == Value(call.p) IN
           IF v.kind = ScalarKind(call.op)
           THEN /\ s.err = NilErr
                /\ ret = [type |-> ScalarKind(call.op), val |-> v.val]
           ELSE /\ ret = ZeroOf(call.op)
                /\ s.err.reason = ErrorReasonIncompatibleType

\* Float64 on a value that is a number but no float64 (an int)
Float64AndBoolContractWitness ==
    /\ call.op = "Float64" /\ WasClean
    /\ Value(call.p) = Int_(7)
    /\ ret = RetFloat64(0)
    /\ s.err.reason = ErrorReasonIncompatibleType

\* Bool on a bool, and Bool on null
BoolSucceedsWitness ==
    /\ call.op = "Bool" /\ WasClean
    /\ Value(call.p) = Bool_(TRUE)
    /\ s.err = NilErr /\ ret = RetBool(TRUE)

BoolOnNullWitness ==
    /\ call.op = "Bool" /\ WasClean
    /\ Value(call.p) = NilV
    /\ ret = RetBool(FALSE)
    /\ s.err.reason = ErrorReasonIncompatibleType

\* C16: Nil leaves the stick without an error exactly when the raw value of
\* the node is nil; on every value that is not nil (a map and a list
\* included) it fails with incompatible type.
NilContract ==
    (call.op = "Nil" /\ WasClean)
        => /\ (s.err = NilErr) <=> (Value(call.p) = NilV)
           /\ (Value(call.p) # NilV) => s.err.reason = ErrorReasonIncompatibleType
           /\ ret = RetNone

\* Nil on an empty list fails
NilContractWitness ==
    /\ call.op = "Nil" /\ WasClean
    /\ Value(call.p) = DocList0
    /\ s.err.reason = ErrorReasonIncompatibleType

\* Nil on null reached through a path leaves the stick without an error
NilOnNullWitness ==
    /\ call.op = "Nil" /\ WasClean
    /\ Value(call.p) = NilV /\ call.p.context # <<>>
    /\ s.err = NilErr

\* the last call is a nil assertion whose target exists: Nil itself, or
\* IndexNil / PathNil whose index / path resolves
NilStageReached ==
    /\ WasClean
    /\ \/ call.op = "Nil"
       \/ call.op = "IndexNil" /\ Succeeds("Index", call.p, call.index, call.path)
       \/ call.op = "PathNil" /\ Succeeds("Path", call.p, call.index, call.path)

\* C17: a failed Nil / IndexNil / PathNil carries the advice "this is a map"
\* when the value is a map, "this is a slice" when it is a list, and
\* "this is not nil" only for the other values that are not nil.
NilAdviceNamesShape ==
    (NilStageReached /\ s.err # NilErr)
        => s.err.advice =
               ShapeAdvice(Target(call.op, call.p, call.index, call.path).kind,
                           "this is not nil")

\* C18: PathNil tells null from absent: it leaves the stick without an error
\* when the path resolves to a key that holds null, fails with incompatible
\* type when the key holds a value that is not null (a map, say), and fails
\* with not found when the final key or a key on the way is absent.
NullVsAbsent ==
    (call.op = "PathNil" /\ WasClean /\ Len(call.path) > 0)
        => LET r == Resolve(Value(call.p), call.path) IN
           /\ (r.ok /\ r.v = NilV) => s.err = NilErr
           /\ (r.ok /\ r.v # NilV) => s.err.reason = ErrorReasonIncompatibleType
           /\ (\E j \in 1 .. Len(call.path) : MissingAt(call.p, call.path, j))
                  => s.err.reason = ErrorReasonNotFound

\* PathNil(p, "a", "b") on {"a": {"b": null}, ...}: present and null
NullVsAbsentWitness ==
    /\ call.op = "PathNil" /\ WasClean
    /\ Value(call.p) = DocNull
    /\ call.path = <<"a", "b">>
    /\ s.err = NilErr

\* PathNil(p, "a") on the same document: present, a map
PresentNotNullWitness ==
    /\ call.op = "PathNil" /\ WasClean
    /\ Value(call.p) = DocNull
    /\ call.path = <<"a">>
    /\ s.err.reason = ErrorReasonIncompatibleType

\* PathNil(p, "a", "a") on the same document: the final key is absent
AbsentWitness ==
    /\ call.op = "PathNil" /\ WasClean
    /\ Value(call.p) = DocNull
    /\ call.path = <<"a", "a">>
    /\ s.err.reason = ErrorReasonNotFound

\* -------------------------------------------------------------- diagnostics
CompositeOps == (IndexOps \cup PathOps) \ {"Index", "Path"}

\* the arguments of the last call as the error context reports them
ArgsOf(c) ==
    CASE c.op \in IndexOps -> IndexArgs(c.index)
      [] c.op \in PathOps -> toInterfaceSlice(c.path)
      [] OTHER -> NoArgs

\* C19: when a composite operation (IndexString ... PathNil) fails, in its
\* navigation or in its scalar stage, the head of the error context carries
\* the composite's own method name and its own arguments, never the name of
\* the inner getter nor plain Index / Path.
CompositeRenaming ==
    (call.op \in CompositeOps /\ WasClean /\ s.err # NilErr)
        => /\ Len(s.err.context) > 0
           /\ Head(s.err.context) = [methodName |-> call.op, methodArgs |-> ArgsOf(call)]

\* a composite whose navigation resolves and whose scalar stage fails
CompositeRenamingWitness ==
    /\ call.op = "PathFloat64" /\ WasClean
    /\ Succeeds("Path", call.p, call.index, call.path)
    /\ s.err.reason = ErrorReasonIncompatibleType
    /\ Head(s.err.context).methodName = "PathFloat64"
    /\ Head(s.err.context).methodArgs = toInterfaceSlice(call.path)

\* a composite whose navigation fails
CompositeNavigationFailsWitness ==
    /\ call.op = "IndexString" /\ WasClean
    /\ s.err.reason = ErrorReasonInvalidInput
    /\ Head(s.err.context) = [methodName |-> "IndexString", methodArgs |-> IndexArgs(call.index)]

Reverse(q) == [i \in 1 .. Len(q) |-> q[Len(q) + 1 - i]]

\* C20: a failing operation M with arguments A, called on a node reached
\* from New's Pinata by the successful navigations s1 .. sk, leaves an error
\* whose context chain is exactly (M, A), sk, ..., s1: one entry for M, also
\* when M is a composite (no entry of its own for the inner navigation), then
\* the navigations from the most recent back to the first.
DiagnosticChain ==
    (call.op \in StickOps /\ WasClean /\ s.err # NilErr)
        => s.err.context =
               <<[methodName |-> call.op, methodArgs |-> ArgsOf(call)]>>
                   \o Reverse(call.via)

\* IndexFloat64(Path(p, "b"), 0) on {"b": ["c", 0], ...} reads a string:
\* the chain is IndexFloat64(0), Path("b")
DiagnosticChainWitness ==
    /\ call.op = "IndexFloat64" /\ WasClean
    /\ call.via = <<[methodName |-> "Path", methodArgs |-> toInterfaceSlice(<<"b">>)]>>
    /\ s.err.reason = ErrorReasonIncompatibleType
    /\ s.err.context = <<[methodName |-> "IndexFloat64", methodArgs |-> IndexArgs(0)],
                         [methodName |-> "Path", methodArgs |-> toInterfaceSlice(<<"b">>)]>>

\* a chain through two navigations
TwoNavigationsChainWitness ==
    /\ call.op \in StickOps /\ WasClean /\ s.err # NilErr
    /\ Len(call.via) = 2
    /\ call.via[1].methodName = "Path" /\ call.via[2].methodName = "Index"
    /\ Len(s.err.context) = 3

\* ------------------------------------------------------------------- nodes
\* C21: a successful Index (Path) returns a node whose origin chain is the
\* entry ("Index", [i]) (("Path", segs)) followed by the chain of the node it
\* was called on, unchanged; a node built by NewPinata / New has an empty
\* chain. So the chain of the node the caller holds is its successful
\* navigations, most recent first.
OriginOfDerivedNodes ==
    /\ (call.op \in {"Index", "Path"} /\ WasClean /\ s.err = NilErr)
           => /\ ret.type = "Pinata"
              /\ ret.val.context =
                     <<[methodName |-> call.op, methodArgs |-> ArgsOf(call)]>>
                         \o call.p.context
    /\ NewPinata(root).context = <<>>
    /\ cur.context = Reverse(trail)

\* Index on a node that a Path returned: the chain is Index, Path
OriginOfDerivedNodesWitness ==
    /\ call.op = "Index" /\ WasClean /\ s.err = NilErr
    /\ Len(call.p.context) = 1
    /\ call.p.context[1].methodName = "Path"
    /\ ret.val.context = <<[methodName |-> "Index", methodArgs |-> IndexArgs(call.index)],
                           call.p.context[1]>>
    /\ cur = ret.val

\* the probes of node p agree with its raw value
ShapeOK(p) ==
    /\ ~(Map(p).ok /\ Slice(p).ok)
    /\ Map(p).ok <=> (Value(p).kind = "map")
    /\ Slice(p).ok <=> (Value(p).kind = "slice")
    /\ Map(p).ok => Map(p).v = Value(p).val
    /\ Slice(p).ok => Slice(p).v = Value(p).val
    /\ Value(p) = p.value

\* C22: for every Pinata the caller can get hold of (built by NewPinata,
\* returned by a successful Index / Path, or the Pinata{} of a failed one)
\* Map() and Slice() are never both ok, Map() is ok exactly when the raw value
\* is a map, Slice() exactly when it is a list, and Value() is the stored
\* value as it is, nil included.
NodeShapeInvariant ==
    /\ ShapeOK(cur)
    /\ ShapeOK(call.p)
    /\ ret.type = "Pinata" => ShapeOK(ret.val)
    /\ ShapeOK(NewPinata(root)) /\ Value(NewPinata(root)) = root
    /\ ShapeOK(EmptyPinata) /\ Value(EmptyPinata) = NilV
    /\ (call.op \in {"Index", "Path"} /\ WasClean /\ s.err = NilErr)
           => Value(ret.val) = Target(call.op, call.p, call.index, call.path)

\* a list node returned by a navigation
NodeShapeInvariantWitness ==
    /\ call.op \in {"Index", "Path"} /\ WasClean /\ s.err = NilErr
    /\ Value(ret.val).kind = "slice"
    /\ Slice(ret.val).ok /\ ~Map(ret.val).ok
    /\ cur = ret.val

\* the Pinata{} of a failed navigation, and a node wrapping nil
EmptyNodeShapeWitness ==
    /\ call.op \in {"Index", "Path"} /\ WasClean /\ s.err # NilErr
    /\ cur = EmptyPinata /\ ret.val = EmptyPinata

NilNodeShapeWitness ==
    /\ call.op \in {"Index", "Path"} /\ WasClean /\ s.err = NilErr
    /\ Value(ret.val) = NilV /\ ret.val # EmptyPinata

\* -------------------------------------------------- two sticks, one tree
Owners == {"A", "B"}
Other(t) == IF t = "A" THEN "B" ELSE "A"

\* variant: every NewStick returns the address of one package-level stick
AllocStick_singleton(n) == 1

\* &stick{}: the address of the stick allocated after n others
AllocStick(n) == n + 1

\* a method with receiver s *stick reads and writes the struct at address r
Deref(h, r) == h[r]
\* variant: the error is kept in one place for all sticks
Assign_global(h, r, st) == [x \in DOMAIN h |-> st]

Assign(h, r, st) == [h EXCEPT ![r] = st]

\* the documents the two callers share, and the operations they call
TwoRoots == {DocNull}
TwoScalarOps == {"String"}
TwoIndexOps == {"Index", "IndexString"}
TwoPathOps == {"Path"}

ScalarCall(op, st, p) ==
    CASE op = "String" -> String(st, p)
      [] op = "Float64" -> Float64(st, p)
      [] op = "Bool" -> Bool(st, p)
      [] op = "Nil" -> Nil(st, p)

IndexCall(op, st, p, index) ==
    CASE op = "Index" -> Index(st, p, index)
      [] op = "IndexString" -> IndexString(st, p, index)
      [] op = "IndexFloat64" -> IndexFloat64(st, p, index)
      [] op = "IndexBool" -> IndexBool(st, p, index)
      [] op = "IndexNil" -> IndexNil(st, p, index)

PathCall(op, st, p, path) ==
    CASE op = "Path" -> Path(st, p, path)
      [] op = "PathString" -> PathString(st, p, path)
      [] op = "PathFloat64" -> PathFloat64(st, p, path)
      [] op = "PathBool" -> PathBool(st, p, path)
      [] op = "PathNil" -> PathNil(st, p, path)

\* the single caller is not there
OneIdle ==
    /\ cur = EmptyPinata /\ s = NewStick /\ ret = RetNone /\ call = NoCall
    /\ first = NoReport /\ failed = FALSE /\ trail = <<>>

\* stickA, stickB := NewStick(), NewStick(); p := NewPinata(root)
TwoInit ==
    /\ root \in TwoRoots
    /\ ref = [t \in Owners |-> IF t = "A" THEN AllocStick(0) ELSE AllocStick(1)]
    /\ heap = [r \in {AllocStick(0), AllocStick(1)} |-> NewStick]
    /\ node = NewPinata(root)
    /\ last = "none"
    /\ alone = [t \in Owners |-> NewStick]
    /\ res = TRUE
    /\ OneIdle /\ RaceIdle /\ AuxIdle

\* caller t makes a call with outcome r on its stick; a is the outcome of the
\* same call when t's calls are made without the other caller's; a Pinata
\* that Index / Path returned is the one passed around from now on
TwoCalled(t, r, a, keeps) ==
    /\ heap' = Assign(heap, ref[t], r.s)
    /\ node' = IF keeps THEN r.ret.val ELSE node
    /\ last' = t
    /\ alone' = [alone EXCEPT ![t] = a.s]
    /\ res' = (r.ret = a.ret)
    /\ UNCHANGED <<root, ref, oneVars, raceVars, auxVars>>

TwoNewPinata ==
    /\ node' = NewPinata(root)
    /\ UNCHANGED <<root, ref, heap, last, alone, res, oneVars, raceVars, auxVars>>

TwoScalar ==
    \E t \in Owners, op \in TwoScalarOps :
        TwoCalled(t, ScalarCall(op, Deref(heap, ref[t]), node),
                  ScalarCall(op, alone[t], node), FALSE)

TwoIndex ==
    \E t \in Owners, op \in TwoIndexOps, i \in Indices :
        TwoCalled(t, IndexCall(op, Deref(heap, ref[t]), node, i),
                  IndexCall(op, alone[t], node, i), op = "Index")

TwoPath ==
    \E t \in Owners, op \in TwoPathOps, path \in Paths :
        TwoCalled(t, PathCall(op, Deref(heap, ref[t]), node, path),
                  PathCall(op, alone[t], node, path), op = "Path")

TwoClearError ==
    \E t \in Owners :
        TwoCalled(t, ClearError(Deref(heap, ref[t])), ClearError(alone[t]), FALSE)

TwoNext ==
    \/ TwoNewPinata
    \/ TwoScalar
    \/ TwoIndex
    \/ TwoPath
    \/ TwoClearError

SpecTwoSticks == TwoInit /\ [][TwoNext]_vars

\* C23: with two sticks A and B on nodes of one tree (a node that A's
\* navigation returned and B reads included), every operation made through
\* one stick, failing or not, and ClearError on it leave the struct of the
\* other stick, its pending error included, as it was.
ErrorContainment ==
    [][\A t \in Owners :
           last' = t => Deref(heap', ref'[Other(t)]) = Deref(heap, ref[Other(t)])]_vars

\* B's call has failed on a node a navigation returned while A holds an error
\* of its own on that node
ErrorContainmentWitness ==
    /\ last = "B"
    /\ ref["A"] # ref["B"]
    /\ Deref(heap, ref["A"]).err # NilErr
    /\ Deref(heap, ref["B"]).err # NilErr
    /\ Deref(heap, ref["A"]).err # Deref(heap, ref["B"]).err
    /\ node.context # <<>>
    /\ Len(Deref(heap, ref["A"]).err.context) = 1 + Len(node.context)
    /\ Len(Deref(heap, ref["B"]).err.context) = 1 + Len(node.context)

\* B has no error (its call succeeded or it cleared) while A's error stays
ContainedClearWitness ==
    /\ last = "B"
    /\ Deref(heap, ref["A"]).err # NilErr
    /\ Deref(heap, ref["B"]).err = NilErr
    /\ res

\* ------------------------------------------------------------------ errors
ErrorReasons == {ErrorReasonIncompatibleType, ErrorReasonNotFound, ErrorReasonInvalidInput}

\* C24: a pending error has one of the three reasons, and a context head with
\* a method name that is not empty; not found comes only from a key lookup of
\* Path / PathX, invalid input only from an index out of range or an empty
\* segment list.
ClosedReasonTaxonomy ==
    /\ s.err # NilErr =>
           /\ s.err.reason \in ErrorReasons
           /\ Len(s.err.context) > 0
           /\ Head(s.err.context).methodName \in StickOps
           /\ Head(s.err.context).methodName # ""
           /\ s.err.reason = ErrorReasonNotFound
                  => /\ Head(s.err.context).methodName \in PathOps
                     /\ Head(s.err.context).methodArgs # NoArgs
           /\ s.err.reason = ErrorReasonInvalidInput
                  => \/ Head(s.err.context).methodName \in IndexOps
                     \/ /\ Head(s.err.context).methodName \in PathOps
                        /\ Head(s.err.context).methodArgs = NoArgs
    \* the call that stored the error
    /\ (call.op \in StickOps /\ WasClean /\ s.err # NilErr) =>
           /\ s.err.reason = ErrorReasonNotFound
                  => /\ call.op \in PathOps
                     /\ \E j \in 1 .. Len(call.path) : MissingAt(call.p, call.path, j)
           /\ s.err.reason = ErrorReasonInvalidInput
                  => \/ /\ call.op \in IndexOps /\ Slice(call.p).ok
                        /\ (call.index < 0 \/ call.index >= Len(Slice(call.p).v))
                     \/ /\ call.op \in PathOps /\ Map(call.p).ok
                        /\ call.path = <<>>

\* an index out of range in a composite, still pending after a later call
ClosedReasonTaxonomyWitness ==
    /\ s.err.reason = ErrorReasonInvalidInput
    /\ Head(s.err.context).methodName = "IndexNil"
    /\ WasFailed /\ call.op \in PathOps

NotFoundPendingWitness ==
    /\ s.err.reason = ErrorReasonNotFound
    /\ Head(s.err.context).methodName = "PathBool"
    /\ WasClean

\* ------------------------------------------------ two threads, one stick
Threads == {"T1", "T2"}

\* the documents the threads read
RaceRoots == {DocList2, DocNull}

\* the calls a thread makes on the wrapped document
RaceCalls ==
    [op : ScalarOps, index : {0}, path : {<<>>}]
        \cup [op : {"Index"}, index : Indices, path : {<<>>}]
        \cup [op : {"Path"}, index : {0}, path : Paths]

NoRaceCall == [op |-> "none", index |-> 0, path |-> <<>>]

\* what a method does after its test of s.err
BodyOf(c, st, p) ==
    CASE c.op = "String" -> internalString(st, p, "String", NoArgs)
      [] c.op = "Float64" -> internalFloat64(st, p, "Float64", NoArgs)
      [] c.op = "Bool" -> internalBool(st, p, "Bool", NoArgs)
      [] c.op = "Nil" -> internalNil(st, p, "Nil", NoArgs)
      [] c.op = "Index" -> internalIndex(st, p, "Index", c.index)
      [] c.op = "Path" -> internalPath(st, p, "Path", c.path)

\* stick, p := New(root), both handed to the two threads
RaceInit ==
    /\ root \in RaceRoots
    /\ shared = NewStick
    /\ th = [t \in Threads |-> [pc |-> "idle", c |-> NoRaceCall, saw |-> FALSE]]
    /\ wrote = <<>>
    /\ OneIdle /\ TwoIdle /\ AuxIdle

\* thread t calls a method: if s.err != nil { return <zero value> }; a call
\* that returns here has not read its arguments
RaceCheck ==
    \E t \in Threads, c \in RaceCalls :
        /\ th[t].pc = "idle"
        /\ th' = [th EXCEPT ![t] = IF shared.err # NilErr
                                   THEN [pc |-> "returned", c |-> NoRaceCall, saw |-> FALSE]
                                   ELSE [pc |-> "checked", c |-> c, saw |-> TRUE]]
        /\ UNCHANGED <<root, shared, wrote, oneVars, twoVars, auxVars>>

\* return s.internalX(p, ...): when it fails it stores its error in the
\* struct without a further look at s.err
RaceBody ==
    \E t \in Threads :
        /\ th[t].pc = "checked"
        /\ shared' = BodyOf(th[t].c, shared, NewPinata(root)).s
        /\ wrote' = IF BodyOf(th[t].c, NewStick, NewPinata(root)).s.err # NilErr
                    THEN Append(wrote, [by |-> t,
                                        err |-> BodyOf(th[t].c, NewStick, NewPinata(root)).s.err])
                    ELSE wrote
        /\ th' = [th EXCEPT ![t].pc = "returned"]
        /\ UNCHANGED <<root, oneVars, twoVars, auxVars>>

\* the method has returned; the thread may call again
RaceReturn ==
    \E t \in Threads :
        /\ th[t].pc = "returned"
        /\ th' = [th EXCEPT ![t] = [pc |-> "idle", c |-> NoRaceCall, saw |-> FALSE]]
        /\ UNCHANGED <<root, shared, wrote, oneVars, twoVars, auxVars>>

RaceNext ==
    \/ RaceCheck
    \/ RaceBody
    \/ RaceReturn

SpecRace == RaceInit /\ [][RaceNext]_vars

\* C25: on a stick shared by two threads the test of s.err and the later
\* assignment to it are separate steps: a thread that saw no error stores its
\* error whatever the struct holds by then, so the struct always holds the
\* error written last, and when both threads saw no error and both calls
\* fail the second assignment replaces the first error.
NotThreadSafe ==
    /\ \A t \in Threads : th[t].pc = "checked" => th[t].saw
    /\ Len(wrote) > 0 => shared.err = wrote[Len(wrote)].err
    /\ Len(wrote) <= 2
    /\ Len(wrote) = 2 => /\ wrote[1].by # wrote[2].by
                         /\ shared.writes >= 2

\* both calls saw a stick without an error, both stored an error, and the
\* first error is lost
NotThreadSafeWitness ==
    /\ \A t \in Threads : th[t].pc = "returned" /\ th[t].saw
    /\ Len(wrote) = 2
    /\ wrote[1].by = "T1" /\ wrote[2].by = "T2"
    /\ wrote[1].err # wrote[2].err
    /\ shared.err = wrote[2].err
    /\ shared.err # wrote[1].err

\* all the values of the tree v
RECURSIVE SubValues(_)
SubValues(v) ==
    {v} \cup
        CASE v.kind = "map" -> UNION {SubValues(v.val[k]) : k \in DOMAIN v.val}
          [] v.kind = "slice" -> UNION {SubValues(v.val[k]) : k \in DOMAIN v.val}
          [] OTHER -> {}

\* C26: no operation changes the decoded tree or the node it is given, so
\* with two sticks, each used by one caller, on nodes of the one tree, in
\* every interleaving each stick ends with the error, and each call returns
\* the result, that the caller's calls give when made without the other
\* caller's.
ReadOnlySharedTree ==
    /\ root \in TwoRoots
    /\ ShapeOK(node)
    /\ node = EmptyPinata \/ Value(node) \in SubValues(root)
    /\ \A t \in Owners : Deref(heap, ref[t]) = alone[t]
    /\ res

\* A failed on the wrapped document; B has navigated into the tree since and
\* holds no error
ReadOnlySharedTreeWitness ==
    /\ last = "B"
    /\ Deref(heap, ref["A"]).err # NilErr
    /\ Len(Deref(heap, ref["A"]).err.context) = 1
    /\ Deref(heap, ref["B"]).err = NilErr
    /\ node.context # <<>>
    /\ \A t \in Owners : Deref(heap, ref[t]) = alone[t]
    /\ res

\* C27: between two ClearError calls the err field of a stick is assigned at
\* most once, the assignments inside one operation counted one by one; Nil /
\* IndexNil / PathNil on a map or a list store one error, not a second one
\* over it.
SingleWritePerFailure ==
    s.writes <= 1

\* ------------------------------------------------------------- composites
\* the scalar getter inside a composite operation
InnerOf(op) ==
    CASE ScalarKind(op) = "string" -> "String"
      [] ScalarKind(op) = "float64" -> "Float64"
      [] ScalarKind(op) = "bool" -> "Bool"
      [] ScalarKind(op) = "nil" -> "Nil"

\* X(Index(p, index)) / X(Path(p, path...)) on a new stick, X the getter
\* inside the composite op
Composed(op, p, index, path) ==
    LET nav == IF op \in IndexOps
               THEN Index(NewStick, p, index)
               ELSE Path(NewStick, p, path)
    IN ScalarCall(InnerOf(op), nav.s, nav.ret.val)

\* C28: on a stick without an error IndexX(p, i) returns the same value, ends
\* with or without an error alike, and with the same reason and advice, as
\* X(Index(p, i)) on a new stick, and PathX(p, segs...) as X(Path(p,
\* segs...)), for X in String, Float64, Bool, Nil; only the method names,
\* arguments and chain of the error context differ.
CompositeEqualsComposition ==
    (call.op \in CompositeOps /\ WasClean)
        => LET c == Composed(call.op, call.p, call.index, call.path) IN
           /\ ret = c.ret
           /\ (s.err = NilErr) <=> (c.s.err = NilErr)
           /\ s.err.reason = c.s.err.reason
           /\ s.err.advice = c.s.err.advice
           /\ s.err # NilErr
                  => /\ Head(c.s.err.context).methodName \in {"Index", "Path", InnerOf(call.op)}
                     /\ Head(s.err.context).methodName = call.op

\* IndexBool whose element exists and is no bool
CompositeEqualsCompositionWitness ==
    /\ call.op = "IndexBool" /\ WasClean
    /\ Succeeds("Index", call.p, call.index, call.path)
    /\ s.err.reason = ErrorReasonIncompatibleType
    /\ ret = RetBool(FALSE)
    /\ Composed(call.op, call.p, call.index, call.path).s.err.advice = s.err.advice

\* PathString that returns a string, and IndexString out of range
CompositeReturnsValueWitness ==
    /\ call.op = "PathString" /\ WasClean
    /\ s.err = NilErr /\ ret = RetString("c")

CompositeNavigationEqualWitness ==
    /\ call.op = "IndexString" /\ WasClean
    /\ s.err.reason = ErrorReasonInvalidInput

\* Path(Path(p, P...), Q...) on a new stick, P the first k segments of path
\* and Q the rest
SplitPath(p, path, k) ==
    LET inner == Path(NewStick, p, SubSeq(path, 1, k))
    IN Path(inner.s, inner.ret.val, SubSeq(path, k + 1, Len(path)))

\* C29: on a stick without an error and a map node, for every split of the
\* segment list into a prefix P and a suffix Q, both not empty, Path(p, P ++
\* Q) and Path(Path(p, P), Q) agree on whether the stick ends with an error,
\* on the raw value of the returned node when it does not, and on the reason
\* of the error when it does.
PathDecomposition ==
    (call.op = "Path" /\ WasClean /\ Map(call.p).ok)
        => \A k \in 1 .. Len(call.path) - 1 :
               LET two == SplitPath(call.p, call.path, k) IN
               /\ (s.err = NilErr) <=> (two.s.err = NilErr)
               /\ s.err = NilErr => Value(ret.val) = Value(two.ret.val)
               /\ s.err # NilErr => s.err.reason = two.s.err.reason

\* Path(p, "a", "b") where "a" holds a scalar: the inner Path succeeds and
\* the outer one fails on the node that is no map, with the same reason
PathDecompositionWitness ==
    /\ call.op = "Path" /\ WasClean /\ Map(call.p).ok
    /\ Len(call.path) = 2
    /\ Path(NewStick, call.p, SubSeq(call.path, 1, 1)).s.err = NilErr
    /\ SplitPath(call.p, call.path, 1).s.err.advice = Advice("call this method on a map pinata")
    /\ s.err.reason = ErrorReasonIncompatibleType

\* a split path that resolves
PathDecompositionResolvesWitness ==
    /\ call.op = "Path" /\ WasClean /\ Map(call.p).ok
    /\ Len(call.path) = 2
    /\ s.err = NilErr
    /\ Value(SplitPath(call.p, call.path, 1).ret.val) = Value(ret.val)

\* C30: Path and PathX test the shape of the node before the segment list,
\* Index and IndexX the shape before the range of the index: with no
\* segments on a node that is no map the error is incompatible type with
\* advice "call this method on a map pinata", with any index on a node that is
\* no list it is incompatible type with advice "call this method on a slice
\* pinata", and invalid input is reported only for a map (Path) or a list
\* (Index).
CheckOrder ==
    /\ (call.op \in PathOps /\ WasClean) =>
           /\ (~Map(call.p).ok /\ call.path = <<>>)
                  => /\ s.err.reason = ErrorReasonIncompatibleType
                     /\ s.err.advice = Advice("call this method on a map pinata")
           /\ s.err.reason = ErrorReasonInvalidInput => Map(call.p).ok
    /\ (call.op \in IndexOps /\ WasClean) =>
           /\ ~Slice(call.p).ok
                  => /\ s.err.reason = ErrorReasonIncompatibleType
                     /\ s.err.advice = Advice("call this method on a slice pinata")
           /\ s.err.reason = ErrorReasonInvalidInput => Slice(call.p).ok

\* Path with no segments on a list
CheckOrderWitness ==
    /\ call.op = "Path" /\ WasClean
    /\ Slice(call.p).ok /\ call.path = <<>>
    /\ s.err.reason = ErrorReasonIncompatibleType
    /\ s.err.advice = Advice("call this method on a map pinata")

\* Index with a negative index on a string
CheckOrderIndexWitness ==
    /\ call.op = "Index" /\ WasClean
    /\ Value(call.p).kind = "string" /\ call.index < 0
    /\ s.err.advice = Advice("call this method on a slice pinata")


\* ------------------------------------------- the caller's slice, by address
\* The ErrorContext structs are allocated one per failing call and one per
\* Pinata that Index / Path return; a struct holds its methodArgs as a
\* closure, which is run when MethodArgs() is called.
MaxCells == 3

NilPtr == 0

\* func() []interface{} { return toInterfaceSlice(path) }: path is the
\* variadic parameter, which is the caller's slice when the call is
\* Path(p, segs...)
PathClosure == [captures |-> "path", index |-> 0]

\* func() []interface{} { return []interface{}{index} }: index is the int
\* parameter, a copy that belongs to the call
IndexClosure(index) == [captures |-> "index", index |-> index]

\* the closure a scalar operation passes: it returns no arguments
NoClosure == [captures |-> "none", index |-> 0]

\* &ErrorContext{methodName: ..., methodArgs: ..., next: ...} with a link to
\* a struct of its own
AllocContext_selfLink(mem, methodName, methodArgs, next) ==
    Append(mem, [methodName |-> methodName, methodArgs |-> methodArgs,
                 next |-> Len(mem) + 1])

\* &ErrorContext{methodName: ..., methodArgs: ..., next: ...}: a new struct
\* at a new address, its next the pointer the Pinata given to the call holds
AllocContext(mem, methodName, methodArgs, next) ==
    Append(mem, [methodName |-> methodName, methodArgs |-> methodArgs,
                 next |-> next])

\* ec.MethodArgs(): runs the closure, which reads what the slice holds now
MethodArgs(ec, slice) ==
    CASE ec.methodArgs.captures = "path" -> toInterfaceSlice(slice)
      [] ec.methodArgs.captures = "index" -> IndexArgs(ec.methodArgs.index)
      [] OTHER -> NoArgs

\* ec.Next(), followed from the struct at address a until there is no next,
\* at most fuel times
RECURSIVE Walk(_, _, _)
Walk(mem, a, fuel) ==
    IF a = NilPtr \/ fuel = 0 THEN <<>>
    ELSE <<a>> \o Walk(mem, mem[a].next, fuel - 1)

\* following next from a comes to the end within fuel steps
RECURSIVE Ends(_, _, _)
Ends(mem, a, fuel) ==
    IF a = NilPtr THEN TRUE
    ELSE IF fuel = 0 THEN FALSE
    ELSE Ends(mem, mem[a].next, fuel - 1)

ChainLen(mem, a) == Len(Walk(mem, a, Len(mem)))

NilH == [reason |-> "", advice |-> Advice(""), context |-> NilPtr]
NilNode == [EmptyPinata EXCEPT !.context = NilPtr]
NotAsked == [reason |-> "", advice |-> Advice(""), context |-> <<>>]

\* Reason(), Advice(), and MethodName() and MethodArgs() of Context() and of
\* every Next() after it, asked of error e now
Asked(e, mem, slice) ==
    [reason |-> e.reason, advice |-> e.advice,
     context |-> [k \in 1 .. ChainLen(mem, e.context) |->
                    LET ec == mem[Walk(mem, e.context, Len(mem))[k]] IN
                    [methodName |-> ec.methodName,
                     methodArgs |-> MethodArgs(ec, slice)]]]

MemRoots == {DocNull}
MemPathOps == {"Path", "PathString"}

\* segs := []string{...}; stick, p := New(root)
MemInit ==
    /\ root \in MemRoots
    /\ segs \in Paths
    /\ cells = <<>>
    /\ hp = [NewPinata(root) EXCEPT !.context = NilPtr]
    /\ herr = NilH
    /\ atCall = NotAsked
    /\ seen = NotAsked
    /\ hops = 0
    /\ given = 0
    /\ OneIdle /\ TwoIdle /\ RaceIdle /\ CombIdle

\* a call whose outcome on a stick without an error, for the Pinata's value,
\* is r; nav: the operation returns a Pinata, which the caller then holds;
\* closure: the methodArgs of the ErrorContext the call allocates
MemCalled(r, nav, closure) ==
    LET clean == herr = NilH
        fails == r.s.err # NilErr
        allocs == clean /\ (fails \/ nav)
        name == IF fails THEN r.s.err.context[1].methodName
                ELSE r.ret.val.context[1].methodName
        mem == IF allocs THEN AllocContext(cells, name, closure, hp.context)
               ELSE cells
        e == IF clean /\ fails
             THEN [reason |-> r.s.err.reason, advice |-> r.s.err.advice,
                   context |-> Len(mem)]
             ELSE herr
    IN  /\ allocs => Len(cells) < MaxCells
        /\ cells' = mem
        /\ herr' = e
        /\ hp' = IF ~nav THEN hp
                 ELSE IF clean /\ ~fails
                 THEN [r.ret.val EXCEPT !.context = Len(mem)]
                 ELSE NilNode
        /\ hops' = IF ~nav THEN hops
                   ELSE IF clean /\ ~fails THEN hops + 1
                   ELSE 0
        /\ given' = IF clean /\ fails THEN ChainLen(cells, hp.context) ELSE given
        /\ atCall' = IF clean /\ fails THEN Asked(e, mem, segs) ELSE atCall
        /\ UNCHANGED <<root, segs, seen, oneVars, twoVars, raceVars, combVars>>

\* the Pinata the caller holds, as the operations of the stick take it
Held == [hp EXCEPT !.context = <<>>]

\* stick.Path(p, segs...), stick.PathString(p, segs...)
MemPath ==
    \E op \in MemPathOps :
        MemCalled(PathCall(op, NewStick, Held, segs), op = "Path", PathClosure)

\* stick.Index(p, index)
MemIndex ==
    \E index \in Indices :
        MemCalled(Index(NewStick, Held, index), TRUE, IndexClosure(index))

\* stick.String(p)
MemString == MemCalled(String(NewStick, Held), FALSE, NoClosure)

\* segs[i] = k
MemModify ==
    \E i \in 1 .. Len(segs), k \in Keys :
        /\ segs[i] # k
        /\ segs' = [segs EXCEPT ![i] = k]
        /\ UNCHANGED <<root, cells, hp, herr, atCall, seen, hops, given,
                       oneVars, twoVars, raceVars, combVars>>

\* err := stick.Error().(*pinata.Error); err.Reason(), err.Advice(),
\* err.Context() and the MethodName(), MethodArgs(), Next() of the chain
MemQuery ==
    /\ herr # NilH
    /\ seen' = Asked(herr, cells, segs)
    /\ UNCHANGED <<root, segs, cells, hp, herr, atCall, hops, given,
                   oneVars, twoVars, raceVars, combVars>>

\* stick.ClearError()
MemClearError ==
    /\ herr' = NilH
    /\ atCall' = NotAsked
    /\ seen' = NotAsked
    /\ given' = 0
    /\ UNCHANGED <<root, segs, cells, hp, hops, oneVars, twoVars, raceVars, combVars>>

MemNext ==
    \/ MemPath
    \/ MemIndex
    \/ MemString
    \/ MemModify
    \/ MemQuery
    \/ MemClearError

SpecMemory == MemInit /\ [][MemNext]_vars

\* C31: what a pending error reports (reason, advice, and the method name
\* and method arguments of every entry of its chain) is, whenever it is
\* asked, what it reported when the failing call returned, whatever the
\* caller did in between to the slice of segments it passed to Path or to
\* other operations.
ErrorImmutability ==
    seen # NotAsked => seen = atCall

\* C32: the chain of the Pinata the caller holds and the chain of the pending
\* error end after finitely many steps without coming back to a struct
\* already passed (every next points to a struct allocated earlier); the
\* chain of a Pinata has one entry per successful Index / Path call that led
\* from New's Pinata to it; the chain of an error has at most one entry more
\* than the chain of the Pinata given to the failing call.
ChainWellFormedness ==
    /\ \A a \in 1 .. Len(cells) : cells[a].next < a
    /\ Ends(cells, hp.context, Len(cells))
    /\ ChainLen(cells, hp.context) = hops
    /\ herr # NilH =>
        /\ Ends(cells, herr.context, Len(cells))
        /\ ChainLen(cells, herr.context) <= 1 + given

\* Path("a"), Path("b"), then String fails on the null: the Pinata's chain
\* has two entries, the error's chain three
ChainWellFormednessWitness ==
    /\ hops = 2
    /\ herr # NilH
    /\ given = 2
    /\ ChainLen(cells, herr.context) = 3


\* C33: an operation that is called on a stick without a pending error and
\* leaves it with one returns, in that call, the zero value of its result
\* type: "", 0, false, or for Index / Path the Pinata{} whose value is nil,
\* which is neither a map nor a slice and has no context; never the node
\* that the segments resolved so far led to.
ZeroValueOnFailure ==
    (call.op \in StickOps /\ WasClean /\ s.err # NilErr) =>
        /\ ret = ZeroOf(call.op)
        /\ call.op \in {"Index", "Path"} =>
            /\ Value(ret.val) = NilV
            /\ ~Map(ret.val).ok
            /\ ~Slice(ret.val).ok
            /\ ret.val.context = <<>>

\* Path with two segments of which the first resolves and the second is
\* missing
ZeroValueOnFailureWitness ==
    /\ call.op = "Path" /\ WasClean
    /\ s.err.reason = ErrorReasonNotFound
    /\ Len(call.path) = 2
    /\ Resolve(Value(call.p), <<call.path[1]>>).ok
    /\ Resolve(Value(call.p), <<call.path[1]>>).v.kind = "map"
    /\ ret = RetPinata(EmptyPinata)


\* C34: the Pinata{} that a failed Index / Path returned, passed to an
\* operation once the error is cleared: String, Float64, Bool, Index and Path
\* fail with incompatible type and return the zero value, and Nil succeeds,
\* as it does on a null that is there.
EmptyNodeAfterClear ==
    (call.p = EmptyPinata /\ WasClean) =>
        /\ call.op \in {"String", "Float64", "Bool", "Index", "Path"} =>
            /\ s.err # NilErr
            /\ s.err.reason = ErrorReasonIncompatibleType
            /\ ret = ZeroOf(call.op)
        /\ call.op = "Nil" => s.err = NilErr

\* a navigation failed, the error was cleared, and Nil of the returned
\* Pinata{} is the next call
EmptyNodeAfterClearWitness ==
    /\ call.op = "Nil" /\ call.resumed
    /\ call.p = EmptyPinata /\ cur = EmptyPinata
    /\ first = NoReport
    /\ s.err = NilErr

\* likewise with String as the next call
EmptyNodeStringWitness ==
    /\ call.op = "String" /\ call.resumed
    /\ call.p = EmptyPinata
    /\ s.err.reason = ErrorReasonIncompatibleType


\* operation op of stick st called with node p and the arguments index, path
StickCall(op, st, p, index, path) ==
    CASE op \in ScalarOps -> ScalarCall(op, st, p)
      [] op \in IndexOps -> IndexCall(op, st, p, index)
      [] op \in PathOps -> PathCall(op, st, p, path)

\* C35: a stick whose error was cleared is a stick as NewStick makes it: the
\* struct after ClearError equals a new one, a stick without a pending error
\* holds nothing else, and every call made on it, the first after the clear
\* and those after it, returns the value and leaves the error that the same
\* call gives on a new stick.
ClearedEqualsFresh ==
    /\ call.op = "ClearError" => s = NewStick
    /\ s.err = NilErr => s = NewStick
    /\ (call.op \in StickOps /\ WasClean) =>
        Out(s, ret) = StickCall(call.op, NewStick, call.p, call.index, call.path)

\* the call after the clearing of an error fails as it does on a new stick
ClearedEqualsFreshWitness ==
    /\ call.op = "PathString" /\ call.resumed
    /\ call.pre = NewStick
    /\ s.err.reason = ErrorReasonNotFound


\* ------------------------------------------------------------ Error.Error
\* an argument under the verb %#v: a string in quotes, an int in decimal
GoSyntax(arg) == ToString(arg.val)

\* fmt.Sprintf of the format built in the buffer: one %#v per argument from
\* the i-th on, with ", " after each but the last
RECURSIVE FormatArgs(_, _)
FormatArgs(methodArgs, i) ==
    IF i > Len(methodArgs) THEN ""
    ELSE GoSyntax(methodArgs[i])
             \o (IF i < Len(methodArgs) THEN ", " ELSE "")
             \o FormatArgs(methodArgs, i + 1)

\* variant: an entry without arguments adds no summary
RECURSIVE Summaries_dropsNoArgs(_)
Summaries_dropsNoArgs(current) ==
    IF current = <<>> THEN <<>>
    ELSE LET methodArgs == Head(current).methodArgs IN
         (IF Len(methodArgs) > 0
          THEN <<Head(current).methodName \o "(" \o FormatArgs(methodArgs, 1) \o ")">>
          ELSE <<>>)
         \o Summaries_dropsNoArgs(Tail(current))

\* the loop of Error(): for current != nil, one summary appended per struct
RECURSIVE Summaries(_)
Summaries(current) ==
    IF current = <<>> THEN <<>>
    ELSE LET methodArgs == Head(current).methodArgs IN
         (IF Len(methodArgs) > 0
          THEN <<Head(current).methodName \o "(" \o FormatArgs(methodArgs, 1) \o ")">>
          ELSE <<Head(current).methodName \o "()">>)
         \o Summaries(Tail(current))

\* strings.Join(elems, sep)
RECURSIVE Join(_, _)
Join(elems, sep) ==
    IF Len(elems) = 0 THEN ""
    ELSE IF Len(elems) = 1 THEN elems[1]
    ELSE elems[1] \o sep \o Join(Tail(elems), sep)

\* p.Error(): the format and its operands in the order of the verbs
ErrorString(p) ==
    [format |-> "pinata: %s (%s) at %v",
     operands |-> <<p.reason, p.advice, Join(Summaries(p.context), " at ")>>]

\* a call as it reads in a diagnostic: name, then the arguments in
\* parentheses, separated by commas
RECURSIVE CommaList(_)
CommaList(args) ==
    IF Len(args) = 0 THEN ""
    ELSE IF Len(args) = 1 THEN ToString(args[1].val)
    ELSE ToString(args[1].val) \o ", " \o CommaList(Tail(args))

CallText(entry) == entry.methodName \o "(" \o CommaList(entry.methodArgs) \o ")"

\* the calls in q, the last one first, each preceded by " at "
RECURSIVE AtEach(_)
AtEach(q) ==
    IF Len(q) = 0 THEN ""
    ELSE " at " \o CallText(q[Len(q)]) \o AtEach(SubSeq(q, 1, Len(q) - 1))

\* C36: Error() gives the reason, then the advice, then the calls: first the
\* failing call, then the navigation steps that led to its node from the
\* most recent back to the oldest, one summary per entry of the chain,
\* joined by " at "; a call without arguments reads as its name followed by
\* "()" and is not left out.
RenderingOrder ==
    (call.op \in StickOps /\ WasClean /\ s.err # NilErr) =>
        /\ ErrorString(s.err).format = "pinata: %s (%s) at %v"
        /\ ErrorString(s.err).operands[1] = s.err.reason
        /\ ErrorString(s.err).operands[2] = s.err.advice
        /\ ErrorString(s.err).operands[3] =
               CallText([methodName |-> call.op, methodArgs |-> ArgsOf(call)])
                   \o AtEach(call.via)
        /\ Len(Summaries(s.err.context)) = Len(s.err.context)

\* String fails on the list reached by Path("b"): the call without
\* arguments comes first, as String()
RenderingOrderWitness ==
    /\ call.op = "String" /\ WasClean
    /\ s.err # NilErr
    /\ ErrorString(s.err).operands[3] = "String() at Path(\"b\")"

\* two navigation steps behind the failing call, with an int and with two
\* strings as arguments
RenderingThreeCallsWitness ==
    /\ WasClean /\ s.err # NilErr
    /\ Len(s.err.context) = 3
    /\ ErrorString(s.err).operands[3] = "Float64() at Index(0) at Path(\"b\")"


\* ------------------------------------ the first revision: Pinata objects
\* In the first revision New returns an object with the value and an error
\* of its own, and the methods are those of the object.
MaxFrames == 3

NoError == [format |-> "", method |-> "", index |-> 0, path |-> <<>>]

\* fmt.Errorf(format, ...): the format with its operands
Errorf(format, method, index, path) ==
    [format |-> format, method |-> method, index |-> index, path |-> path]

\* the nil Pinata
NilPinata == [type |-> "nil", contents |-> NilV, err |-> NoError]

\* &slicePinata{contents: contents}
slicePinata(contents) == [type |-> "slicePinata", contents |-> contents, err |-> NoError]

\* New: a slice gets a basePinata, which has no contents
New(contents) ==
    CASE contents.kind = "map" ->
             [type |-> "mapPinata", contents |-> contents, err |-> NoError]
      [] contents.kind = "slice" ->
             [type |-> "basePinata", contents |-> NilV, err |-> NoError]
      [] OTHER ->
             [type |-> "otherPinata", contents |-> contents, err |-> NoError]

\* a method with receiver p has run: the receiver after it and what it returned
Did(p, r) == [p |-> p, ret |-> r]

toSlice(pathStart, rest) == <<pathStart>> \o rest

indexFail(p, method, index) ==
    IF p.err # NoError THEN p
    ELSE [p EXCEPT !.err = Errorf("%s(%d): not a slice so can't access by index",
                                  method, index, <<>>)]

pathFail(p, method, pathStart, path) ==
    IF p.err # NoError THEN p
    ELSE [p EXCEPT !.err = Errorf("%s(\"%s\"): not a map so can't access by path",
                                  method, 0, toSlice(pathStart, path))]

basePinataString(p) ==
    IF p.err # NoError THEN Did(p, RetString(""))
    ELSE Did([p EXCEPT !.err = Errorf("String(): not a string", "", 0, <<>>)],
             RetString(""))

otherPinataString(p) ==
    IF p.err # NoError THEN Did(p, RetString(""))
    ELSE IF p.contents.kind = "string" THEN Did(p, RetString(p.contents.val))
    ELSE Did([p EXCEPT !.err = Errorf("String(): not a string", "", 0, <<>>)],
             RetString(""))

\* p.String() by the type of p; mapPinata and slicePinata have basePinata's
PinataString(p) ==
    IF p.type = "otherPinata" THEN otherPinataString(p) ELSE basePinataString(p)

slicePinataPinataAtIndex(p, index) ==
    IF p.err # NoError THEN Did(p, NilPinata)
    ELSE IF index >= 0 /\ index < Len(p.contents.val)
    THEN Did(p, New(p.contents.val[index + 1]))
    ELSE Did(indexFail(p, "PinataAtIndex", index), NilPinata)

\* p.PinataAtIndex(index) by the type of p
PinataAtIndex(p, index) ==
    IF p.type = "slicePinata" THEN slicePinataPinataAtIndex(p, index)
    ELSE Did(indexFail(p, "PinataAtIndex", index), NilPinata)

RECURSIVE PinataAtPath(_, _, _)

\* for len(rest) > 0 { tmp := currentPinata.PinataAtPath(rest[0]); ... }
RECURSIVE atPathLoop(_, _)
atPathLoop(currentPinata, rest) ==
    IF Len(rest) = 0 THEN [fail |-> FALSE, currentPinata |-> currentPinata]
    ELSE LET r == PinataAtPath(currentPinata, rest[1], <<>>) IN
         IF r.p.err # NoError
         THEN [fail |-> TRUE, currentPinata |-> NilPinata]
         ELSE atPathLoop(r.ret, Tail(rest))

mapPinataPinataAtPath(p, pathStart, path) ==
    IF p.err # NoError THEN Did(p, NilPinata)
    ELSE IF pathStart \in DOMAIN p.contents.val
    THEN LET l == atPathLoop(New(p.contents.val[pathStart]), path) IN
         IF l.fail
         THEN Did(pathFail(p, "PinataAtPath", pathStart, path), NilPinata)
         ELSE Did(p, l.currentPinata)
    ELSE Did(pathFail(p, "PinataAtPath", pathStart, path), NilPinata)

\* p.PinataAtPath(pathStart, path...) by the type of p
PinataAtPath(p, pathStart, path) ==
    IF p.type = "mapPinata" THEN mapPinataPinataAtPath(p, pathStart, path)
    ELSE Did(pathFail(p, "PinataAtPath", pathStart, path), NilPinata)

\* one activation of p.StringAtPath(pathStart, path...) up to its return or
\* to its call of p.StringAtPath(pathStart, path...): again tells which
StringAtPathBody(p, pathStart, path) ==
    IF p.type # "mapPinata"
    THEN [p |-> pathFail(p, "StringAtPath", pathStart, path),
          ret |-> RetString(""), again |-> FALSE]
    ELSE LET r == mapPinataPinataAtPath(p, pathStart, path) IN
         IF r.p.err # NoError
         THEN [p |-> r.p, ret |-> RetString(""), again |-> FALSE]
         ELSE [p |-> r.p, ret |-> PinataString(r.ret).ret,
               again |-> PinataString(r.ret).p.err # NoError]

\* one activation of p.StringAtIndex(index), likewise
StringAtIndexBody(p, index) ==
    IF p.type # "slicePinata"
    THEN [p |-> indexFail(p, "StringAtIndex", index),
          ret |-> RetString(""), again |-> FALSE]
    ELSE IF p.err # NoError
    THEN [p |-> p, ret |-> RetString(""), again |-> FALSE]
    ELSE LET r == slicePinataPinataAtIndex(p, index) IN
         IF r.p.err # NoError
         THEN [p |-> r.p, ret |-> RetString(""), again |-> FALSE]
         ELSE [p |-> r.p, ret |-> PinataString(r.ret).ret,
               again |-> PinataString(r.ret).p.err # NoError]

ClearErrorOf(p) == [p EXCEPT !.err = NoError]

\* the object at address a is now obj, and the error of obj is the error of
\* every object
Put_sharedErr(h, a, obj) ==
    [x \in DOMAIN h |-> IF x = a THEN obj ELSE [h[x] EXCEPT !.err = obj.err]]

\* the object at address a is now obj
Put(h, a, obj) == [h EXCEPT ![a] = obj]

ParentAt == 1
ChildAt == 2

\* the child New returned is what the caller holds from now on, in place of
\* the child it held before
Keep(h, obj) == <<h[ParentAt], obj>>

CombRoots == {DocNull, DocScalarAtA, DocList2, Str("c")}
CombPaths == Paths \ {<<>>}
Sides == {"parent", "child"}

\* nothing was returned, or a Pinata that the caller holds or drops
NoResult == [type |-> "none", val |-> ""]

NoRunning == [op |-> "none", path |-> <<>>, index |-> 0]
NoLast == [op |-> "none", on |-> "parent", path |-> <<>>, index |-> 0, pre |-> <<>>]

\* p := New(root), or p := &slicePinata{contents: root} inside the package
CombInit ==
    /\ root \in CombRoots
    /\ objs \in {<<New(root)>>} \cup
                (IF root.kind = "slice" THEN {<<slicePinata(root)>>} ELSE {})
    /\ held = 0
    /\ cpc = "idle"
    /\ running = NoRunning
    /\ frames = 0
    /\ cret = NoResult
    /\ clast = NoLast
    /\ OneIdle /\ TwoIdle /\ RaceIdle /\ MemIdle

\* the address of the object on the given side
At(on) == IF on = "parent" THEN ParentAt ELSE held

Has(on) == on = "parent" \/ held # 0

\* p.String() or child.String()
CombString ==
    \E on \in Sides :
        /\ cpc = "idle" /\ Has(on)
        /\ objs' = Put(objs, At(on), PinataString(objs[At(on)]).p)
        /\ cret' = PinataString(objs[At(on)]).ret
        /\ clast' = [op |-> "String", on |-> on, path |-> <<>>, index |-> 0,
                     pre |-> objs]
        /\ UNCHANGED <<root, held, cpc, running, frames,
                       oneVars, twoVars, raceVars, memVars>>

\* child = p.PinataAtPath(pathStart, path...), or _ = child.PinataAtPath(...)
CombPinataAtPath ==
    \E on \in Sides, path \in CombPaths :
        LET r == PinataAtPath(objs[At(on)], Head(path), Tail(path))
            h == Put(objs, At(on), r.p)
        IN  /\ cpc = "idle" /\ Has(on)
            /\ objs' = IF on = "child" THEN h
                       ELSE IF r.ret = NilPinata THEN <<h[ParentAt]>>
                       ELSE Keep(h, r.ret)
            /\ held' = IF on = "child" THEN held
                       ELSE IF r.ret = NilPinata THEN 0
                       ELSE ChildAt
            /\ cret' = NoResult
            /\ clast' = [op |-> "PinataAtPath", on |-> on, path |-> path,
                         index |-> 0, pre |-> objs]
            /\ UNCHANGED <<root, cpc, running, frames,
                           oneVars, twoVars, raceVars, memVars>>

\* child = p.PinataAtIndex(index), or _ = child.PinataAtIndex(index)
CombPinataAtIndex ==
    \E on \in Sides, index \in Indices :
        LET r == PinataAtIndex(objs[At(on)], index)
            h == Put(objs, At(on), r.p)
        IN  /\ cpc = "idle" /\ Has(on)
            /\ objs' = IF on = "child" THEN h
                       ELSE IF r.ret = NilPinata THEN <<h[ParentAt]>>
                       ELSE Keep(h, r.ret)
            /\ held' = IF on = "child" THEN held
                       ELSE IF r.ret = NilPinata THEN 0
                       ELSE ChildAt
            /\ cret' = NoResult
            /\ clast' = [op |-> "PinataAtIndex", on |-> on, path |-> <<>>,
                         index |-> index, pre |-> objs]
            /\ UNCHANGED <<root, cpc, running, frames,
                           oneVars, twoVars, raceVars, memVars>>

\* p.ClearError() or child.ClearError()
CombClearError ==
    \E on \in Sides :
        /\ cpc = "idle" /\ Has(on)
        /\ objs' = Put(objs, At(on), ClearErrorOf(objs[At(on)]))
        /\ cret' = NoResult
        /\ clast' = [op |-> "ClearError", on |-> on, path |-> <<>>, index |-> 0,
                     pre |-> objs]
        /\ UNCHANGED <<root, held, cpc, running, frames,
                       oneVars, twoVars, raceVars, memVars>>

\* p.StringAtPath(pathStart, path...) is called: its first activation
CombStringAtPath ==
    \E path \in CombPaths :
        /\ cpc = "idle"
        /\ cpc' = "running"
        /\ running' = [op |-> "StringAtPath", path |-> path, index |-> 0]
        /\ frames' = 1
        /\ clast' = [op |-> "StringAtPath", on |-> "parent", path |-> path,
                     index |-> 0, pre |-> objs]
        /\ UNCHANGED <<root, objs, held, cret,
                       oneVars, twoVars, raceVars, memVars>>

\* p.StringAtIndex(index) is called: its first activation
CombStringAtIndex ==
    \E index \in Indices :
        /\ cpc = "idle"
        /\ cpc' = "running"
        /\ running' = [op |-> "StringAtIndex", path |-> <<>>, index |-> index]
        /\ frames' = 1
        /\ clast' = [op |-> "StringAtIndex", on |-> "parent", path |-> <<>>,
                     index |-> index, pre |-> objs]
        /\ UNCHANGED <<root, objs, held, cret,
                       oneVars, twoVars, raceVars, memVars>>

\* the body of the activation on top of the stack
Body ==
    IF running.op = "StringAtPath"
    THEN StringAtPathBody(objs[ParentAt], Head(running.path), Tail(running.path))
    ELSE StringAtIndexBody(objs[ParentAt], running.index)

\* the activation comes to a return: with it the activations below return
\* the "" their own pinata.String() gave them
CombReturn ==
    /\ cpc = "running"
    /\ ~Body.again
    /\ objs' = Put(objs, ParentAt, Body.p)
    /\ cret' = IF frames = 1 THEN Body.ret ELSE RetString("")
    /\ cpc' = "idle"
    /\ running' = NoRunning
    /\ frames' = 0
    /\ UNCHANGED <<root, held, clast, oneVars, twoVars, raceVars, memVars>>

\* pinata.Error() != nil: the activation calls the method again with the
\* same arguments
CombReenter ==
    /\ cpc = "running"
    /\ Body.again
    /\ frames < MaxFrames
    /\ objs' = Put(objs, ParentAt, Body.p)
    /\ frames' = frames + 1
    /\ UNCHANGED <<root, held, cpc, running, cret, clast,
                   oneVars, twoVars, raceVars, memVars>>

\* the stack has no room for a further activation: the runtime stops the
\* program (fatal error: stack overflow)
CombOverflow ==
    /\ cpc = "running"
    /\ Body.again
    /\ frames = MaxFrames
    /\ cpc' = "fatal"
    /\ UNCHANGED <<root, objs, held, running, frames, cret, clast,
                   oneVars, twoVars, raceVars, memVars>>

CombRun == CombReturn \/ CombReenter \/ CombOverflow

CombNext ==
    \/ CombString
    \/ CombPinataAtPath
    \/ CombPinataAtIndex
    \/ CombClearError
    \/ CombStringAtPath
    \/ CombStringAtIndex
    \/ CombReturn
    \/ CombReenter
    \/ CombOverflow

SpecCombined == CombInit /\ [][CombNext]_vars

\* a call that is running goes on running: each of its steps changes cpc
\* or frames
SpecCombinedLive == SpecCombined /\ WF_<<cpc, frames>>(CombRun)

\* the value the last StringAtPath / StringAtIndex call addressed is there
\* and is not a string
AddressedNonString ==
    LET p == clast.pre[ParentAt] IN
    \/ /\ clast.op = "StringAtPath" /\ p.type = "mapPinata" /\ p.err = NoError
       /\ Resolve(p.contents, clast.path).ok
       /\ Resolve(p.contents, clast.path).v.kind # "string"
    \/ /\ clast.op = "StringAtIndex" /\ p.type = "slicePinata" /\ p.err = NoError
       /\ clast.index >= 0 /\ clast.index < Len(p.contents.val)
       /\ p.contents.val[clast.index + 1].kind # "string"

\* C37: every call of StringAtPath and of StringAtIndex returns, and when the
\* value it addressed is there and is not a string it has returned "" and
\* the error of the Pinata it was called on is set.
StringAtTerminates ==
    (cpc = "running") ~>
        (/\ cpc = "idle"
         /\ AddressedNonString =>
                /\ cret.type = "string" /\ cret.val = ""
                /\ objs[ParentAt].err # NoError)

\* C38: a call made on the child that PinataAtPath / PinataAtIndex returned
\* changes nothing in the Pinata the child was got from; when String is
\* called on a child that holds a map and the parent has no error, afterwards
\* the parent's Error() is still nil and the child's is not.
ChildErrorContained ==
    clast.on = "child" =>
        /\ objs[ParentAt] = clast.pre[ParentAt]
        /\ (/\ clast.op = "String"
            /\ clast.pre[ChildAt].type = "mapPinata"
            /\ clast.pre[ChildAt].err = NoError
            /\ clast.pre[ParentAt].err = NoError) =>
                /\ objs[ParentAt].err = NoError
                /\ objs[ChildAt].err # NoError

\* child := p.PinataAtPath("a"); child.String() where "a" holds a map
ChildErrorContainedWitness ==
    /\ clast.op = "String" /\ clast.on = "child"
    /\ held = ChildAt
    /\ objs[ChildAt].type = "mapPinata"
    /\ clast.pre[ChildAt].err = NoError
    /\ objs[ChildAt].err = Errorf("String(): not a string", "", 0, <<>>)
    /\ objs[ParentAt].err = NoError

====
